---- MODULE Spec2Model ----
(***************************************************************************)
(* A model of juno's JSON-RPC subscription engine (rpc/v8/subscriptions.go) *)
(* as a state machine: the subscription registry, the per-subscription     *)
(* cancellation contexts and goroutines, the feeds they read and the       *)
(* notifications they write to their connection.                           *)
(*                                                                         *)
(* A handler or goroutine is cut into steps at the points where another    *)
(* goroutine can observe or change what it uses: a receive from a feed, a  *)
(* write to the connection, a check of the context, wg.Go and wg.Wait.     *)
(* Reads of the chain database do not fail in the model.                   *)
(***************************************************************************)
EXTENDS Integers, Sequences, FiniteSets, TLC

(***************************************************************************)
(* Bounds of the model.                                                    *)
(***************************************************************************)
\* Spec: subscriptions created, values published, connection writes that fail
MaxSubs == 1
\* the ids the generator can hand out in a run
MaxIds == 2
MaxPublish == 2
MaxWriteFail == 1
\* SpecCalls (one subscription, every caller)
CallsMaxPublish == 1
CallsMaxWriteFail == 0
\* SpecOne (one subscription at a time, also under fairness)
OneMaxPublish == 1
OneMaxWriteFail == 1
\* SpecEvents (one events subscription over a longer chain)
EvMaxPublish == 4
EvMaxWriteFail == 1
\* SpecReplay (one events subscription, no reorg, no failing write)
RpMaxPublish == 4
\* SpecHeads (one new-heads subscription, no reorg, no failing write)
HdMaxPublish == 2
\* SpecArgs (every block id and key filter as argument)
ArgMaxPublish == 2
\* SpecIds (several subscriptions, one after or beside the other)
IdMaxPublish == 1
\* SpecTwo (two subscriptions, two connections)
TwoMaxPublish == 1
\* SpecPending (one pending-transactions subscription, every argument)
PdMaxPublish == 2
PdMaxWriteFail == 1
\* SpecTx (one transaction-status subscription, from a transaction not yet known)
TxMaxPublish == 3
TxMaxWriteFail == 1
\* SpecMiddleware (the request middleware chain of the JSON-RPC server)
MaxMiddlewares == 3
MaxRequests == 2
\* SpecHTTP (the HTTP transport)
MaxHTTPRequests == 4

(***************************************************************************)
(* Values.                                                                 *)
(***************************************************************************)
Conns == {"c1", "c2"}
\* the context of a call that did not arrive over a WebSocket carries no connection
NoConn == "noconn"
Ids == 1..MaxIds
\* ids a client can name in an Unsubscribe call: the issued ones and an unknown one
AnyIds == 1..(MaxSubs + 1)
\* Unsubscribe requests that can be in flight at once
Callers == {"r1", "r2"}
None == [none |-> TRUE]
\* block number of the chain head after construction
InitHeight == 1

\* rpccore.MaxBlocksBack and rpccore.MaxEventFilterKeys, scaled to the model
MaxBlocksBack == 2
MaxEventFilterKeys == 2

VARIABLES
    subscriptions,  \* h.subscriptions: the ids in the registry
    subs,           \* the subscription objects by id: kind, conn, cancel called
    pc,             \* position of each goroutine of a subscription
    loc,            \* the goroutines' local variables
    feeds,          \* the feed handles each subscription holds
    closed,         \* connections whose request context is cancelled
    nextId,         \* the id generator
    calls,          \* Unsubscribe calls blocked in wg.Wait
    txWait,         \* SubscribeTransactionStatus calls in the not-found loop
    height,         \* block number of the chain head
    pendingHas,     \* the pending block holds its transaction
    txStatus,       \* finality of the watched transaction at the gateway
    budget,         \* what the run may still do: subscribe, publish, fail a write
    lastWrite,      \* the write attempted by the step just taken, or None
    lastCall,       \* the handler call that returned in the step just taken, or None
    acked,          \* history: ids for which Unsubscribe has returned true
    wfails,         \* history: the number of failed writes of each id
    sawFinal,       \* history: ids that observed a terminal finality
    evHist,         \* history of an events subscription's notifications, or None
    written,        \* history: the notifications written, in order, when switched on
    handler,        \* s.handler: the registered middlewares, innermost first
    req,            \* the request Server.Handle runs through the chain, and where it is
    trace,          \* history: who the last request entered and left, in order
    reports,        \* the calls made on the reporters during the last request
    served,         \* the number of requests started
    http            \* the HTTP transport: its request counter and its last exchange

vars == <<subscriptions, subs, pc, loc, feeds, closed, nextId, calls, txWait,
          height, pendingHas, txStatus, budget, lastWrite, lastCall, acked,
          wfails, sawFinal, evHist, written, handler, req, trace, reports, served,
          http>>

engine == <<subscriptions, subs, pc, loc, feeds, nextId>>
chain == <<height, pendingHas, txStatus>>
history == <<acked, sawFinal, evHist>>
server == <<handler, req, trace, reports, served, http>>

(***************************************************************************)
(* Feed: one producer, one buffer per consumer.  A handle from Subscribe   *)
(* holds every published value in order; a handle from SubscribeKeepLast   *)
(* holds at most one, the newest.                                          *)
(***************************************************************************)
NoHandle == [on |-> FALSE, keep |-> FALSE, buf |-> <<>>]
FeedSubscribe == [on |-> TRUE, keep |-> FALSE, buf |-> <<>>]
FeedSubscribeKeepLast == [on |-> TRUE, keep |-> TRUE, buf |-> <<>>]
FeedSend(f, v) ==
    IF ~f.on THEN f
    ELSE IF f.keep THEN [f EXCEPT !.buf = <<v>>]
    ELSE [f EXCEPT !.buf = Append(@, v)]
FeedUnsubscribe(f) == [f EXCEPT !.on = FALSE, !.buf = <<>>]
FeedRecv(f) == [f EXCEPT !.buf = Tail(@)]
NoFeeds == [newHeads |-> NoHandle, reorgs |-> NoHandle,
            pendingBlock |-> NoHandle, l1Heads |-> NoHandle]
\* Send(v) on feed `name`: every attached handle receives v
Publish(name, v) == [id \in Ids |-> [feeds[id] EXCEPT ![name] = FeedSend(@, v)]]
Detach(id) == [feeds EXCEPT ![id] = [n \in DOMAIN @ |-> FeedUnsubscribe(@[n])]]

(***************************************************************************)
(* The chain the engine reads: block n of the canonical chain holds one    *)
(* event, of transaction n; the pending block, numbered height + 1, holds  *)
(* its event once the transaction has arrived.                             *)
(***************************************************************************)
\* no run publishes more blocks than this
MaxHeight == InitHeight + MaxPublish + OneMaxPublish + EvMaxPublish
Blocks == 0..(MaxHeight + 1)
\* the events a filter over blocks [from, to] returns: those of the canonical
\* blocks, with their block hash, and those of the pending block, with none
BlockEvents(n) ==
    IF n <= height THEN <<[num |-> n, key |-> n, pending |-> FALSE]>>
    ELSE IF n = height + 1 /\ pendingHas THEN <<[num |-> n, key |-> n, pending |-> TRUE]>>
    ELSE <<>>
RECURSIVE FilterEvents(_, _)
FilterEvents(from, to) ==
    IF from > to THEN <<>> ELSE BlockEvents(from) \o FilterEvents(from + 1, to)

\* the transactions a pending block can hold
Transactions == {[hash |-> "h1", type |-> "invoke", sender |-> "a1"],
                 [hash |-> "h2", type |-> "declare", sender |-> "a2"],
                 [hash |-> "h3", type |-> "l1_handler", sender |-> "a1"]}
Tx(h) == CHOOSE t \in Transactions : t.hash = h

\* TxnStatus: the finality ladder
Finality == [received |-> 1, rejected |-> 2, acceptedL2 |-> 3, acceptedL1 |-> 4]
IsFinalNever(st) == FALSE
IsFinal(st) == st \in {"rejected", "acceptedL1"}
\* what h.TransactionStatus can answer: the gateway's status, or another error
TransactionStatus == {txStatus, "internal error"}
IsStatus(res) == res \in DOMAIN Finality

(***************************************************************************)
(* Subscription objects, contexts and goroutines.                          *)
(***************************************************************************)
NoSub == [kind |-> "none", conn |-> NoConn, cancelled |-> FALSE]
NoPc == [main |-> "off", hist |-> "off", reorgs |-> "off", live |-> "off", poll |-> "off"]
NoLoc == [start |-> 0, latest |-> 0, cur |-> 0, nextBlock |-> 0, after |-> 0,
          track |-> FALSE, sent |-> {}, todo |-> <<>>, status |-> "none",
          details |-> FALSE, senders |-> <<>>, recv |-> <<>>]

\* subscriptionCtx.Done(): cancelled by its own cancel or through the request context
(***************************************************************************)
(* The JSON-RPC server's request middleware chain.                         *)
(***************************************************************************)
Reporters == {"r1", "r2"}
Methods == {"subtract", "update"}
ErrorCodes == {-32601, 0}

\* *response: nil (a notification), a result, or an error with its code
NilResponse == [nil |-> TRUE, hasError |-> FALSE, code |-> 0]
ResultResponse == [nil |-> FALSE, hasError |-> FALSE, code |-> 0]
ErrorResponse(c) == [nil |-> FALSE, hasError |-> TRUE, code |-> c]
Responses == {NilResponse, ResultResponse} \cup {ErrorResponse(c) : c \in ErrorCodes}
\* what a requestHandler returns: (*response, error)
Outcomes == {[resp |-> r, err |-> FALSE] : r \in Responses}
            \cup {[resp |-> NilResponse, err |-> TRUE]}

\* the middlewares a caller registers: MetricsReporterMiddleware(reporter), or one
\* that answers by itself without calling next
Middlewares == {[kind |-> "metrics", rep |-> r] : r \in Reporters}
               \cup {[kind |-> "short", rep |-> ""]}
\* history: the request and the result the terminal dispatcher saw and returned
NoSeen == [method |-> "", resp |-> NilResponse, err |-> FALSE, times |-> 0]
NoRequest == [method |-> "", at |-> 0, dir |-> "done", resp |-> NilResponse, err |-> FALSE,
              asked |-> "", seen |-> NoSeen]
Entered(who) == [ev |-> "enter", who |-> who]
Left(who) == [ev |-> "exit", who |-> who]

(***************************************************************************)
(* The HTTP transport.  An http.ResponseWriter sends status 200 unless     *)
(* WriteHeader was called before the first Write, and sends the headers    *)
(* set before the status went out.                                         *)
(***************************************************************************)
HTTPMethods == {"GET", "POST", "PUT", "DELETE"}
Paths == {"/", "/v0_8"}
\* resp of h.rpc.HandleReader: nil, or the bytes of a JSON-RPC answer
NoBytes == "<nil>"
Bodies == {NoBytes, "{result}", "{error}"}
\* what h.rpc.HandleReader returns: ([]byte, error)
CoreOutcomes == [resp : Bodies, err : BOOLEAN]
NoOutcome == [resp |-> NoBytes, err |-> FALSE]

NewWriter == [code |-> 0, contentType |-> "", body |-> NoBytes]
\* writer.WriteHeader(code)
WriteHeader(w, code) == IF w.code = 0 THEN [w EXCEPT !.code = code] ELSE w
\* writer.Header().Set("Content-Type", v)
SetContentType(w, v) == IF w.code = 0 THEN [w EXCEPT !.contentType = v] ELSE w
\* writer.Write(b)
Write(w, b) == [w EXCEPT !.code = IF @ = 0 THEN 200 ELSE @, !.body = b]
\* the status the client receives once the handler has returned
Status(w) == IF w.code = 0 THEN 200 ELSE w.code

NoHTTP == [requests |-> 0, served |-> 0,
           last |-> [method |-> "", path |-> "", called |-> FALSE, out |-> NoOutcome,
                     w |-> NewWriter]]

Done(id) == subs[id].cancelled \/ subs[id].conn \in closed
\* sub.wg holds the subscription's outer goroutine from wg.Go until it returns
WgEmpty(id) == pc[id].main \in {"off", "init", "done"}
Running(id, task) == pc[id][task] \notin {"off", "done"}

WriteOutcomes == IF budget.fail > 0 THEN {TRUE, FALSE} ELSE {TRUE}

\* no write and no handler return in this step
Quiet == lastWrite' = None /\ lastCall' = None /\ UNCHANGED <<wfails, written, server>>
\* a handler returns `res` to its caller
Returns(op, conn, id, res) ==
    /\ lastCall' = [op |-> op, conn |-> conn, id |-> id, res |-> res]
    /\ lastWrite' = None
    /\ UNCHANGED <<wfails, written, server>>
\* the connection a subscription's goroutines write to: the handle taken from the
\* context of the subscribe call, captured by the goroutine's closure
WriteConnShared(id) == subs[CHOOSE k \in Ids : subs[k] # NoSub].conn
WriteConn(id) == subs[id].conn
\* sendResponse: one notification for subscription id handed to its connection
sendResponse(method, id, result, ok) ==
    /\ lastWrite' = [conn |-> WriteConn(id), id |-> id, method |-> method,
                     result |-> result, ok |-> ok]
    /\ lastCall' = None
    /\ wfails' = IF ok THEN wfails ELSE [wfails EXCEPT ![id] = @ + 1]
    /\ written' = IF ~written.on \/ ~ok THEN written
                  ELSE [written EXCEPT !.seq = Append(@, [id |-> id, method |-> method,
                                                          result |-> result])]
    /\ UNCHANGED server
\* the budget after a write
Spend(ok) == IF ok THEN budget ELSE [budget EXCEPT !.fail = @ - 1]

\* h.unsubscribe(sub, id), the goroutines' deferred call: cancel and delete
unsubscribeCancel(id) == [subs EXCEPT ![id].cancelled = TRUE]
unsubscribeDelete(id) == subscriptions \ {id}
\* the deferred function of a subscription's outer goroutine
ExitKeepFeeds(id) ==
    /\ subs' = unsubscribeCancel(id)
    /\ subscriptions' = unsubscribeDelete(id)
    /\ feeds' = feeds
Exit(id) ==
    /\ subs' = unsubscribeCancel(id)
    /\ subscriptions' = unsubscribeDelete(id)
    /\ feeds' = Detach(id)

\* h.idgen
idgenReuse == CHOOSE id \in Ids : id \notin subscriptions /\ \A k \in Ids \ subscriptions : id <= k
idgen == nextId
\* the common setup of the subscribe handlers: id, context, registry entry
Register(kind, conn, l) ==
    /\ budget.subs > 0
    /\ budget' = [budget EXCEPT !.subs = @ - 1]
    /\ nextId' = nextId + 1
    /\ subs' = [subs EXCEPT ![idgen] = [kind |-> kind, conn |-> conn, cancelled |-> FALSE]]
    /\ subscriptions' = subscriptions \cup {idgen}
    /\ pc' = [pc EXCEPT ![idgen].main = "init"]
    /\ loc' = [loc EXCEPT ![idgen] = l]
    /\ UNCHANGED feeds

\* SubscriptionBlockID: absent (a nil pointer), "latest", or a block number
Latest == [latest |-> TRUE, number |-> 0]
BlockNumber(n) == [latest |-> FALSE, number |-> n]
BlockIds == {None, Latest} \cup {BlockNumber(n) : n \in Blocks}
\* resolveBlockRange: the start and latest headers, or the error
resolveBlockRange(blockID) ==
    IF blockID = None \/ blockID.latest
    THEN [err |-> "", start |-> height, latest |-> height]
    ELSE IF blockID.number > height
    THEN [err |-> "block not found", start |-> 0, latest |-> 0]
    ELSE IF height >= MaxBlocksBack /\ blockID.number <= height - MaxBlocksBack
    THEN [err |-> "too many blocks back", start |-> 0, latest |-> 0]
    ELSE [err |-> "", start |-> blockID.number, latest |-> height]

(***************************************************************************)
(* SubscribeNewHeads                                                       *)
(***************************************************************************)
\* the error the handler returns before it creates anything, or ""
SubscribeNewHeadsError(conn, blockID) ==
    IF conn = NoConn THEN "method not found" ELSE resolveBlockRange(blockID).err

\* the handler up to h.subscriptions.Store
SubscribeNewHeads(conn, blockID) ==
    LET r == resolveBlockRange(blockID)
        err == SubscribeNewHeadsError(conn, blockID)
    IN
    /\ UNCHANGED <<closed, calls, txWait, chain, history>>
    /\ IF err # ""
       THEN Returns("SubscribeNewHeads", conn, 0, err) /\ UNCHANGED <<engine, budget>>
       ELSE /\ Register("heads", conn, [NoLoc EXCEPT !.start = r.start, !.latest = r.latest,
                                                     !.cur = r.start])
            /\ Quiet

\* the rest of the handler: attach to the feeds, wg.Go, return the id
SubscribeNewHeadsGo(id) ==
    /\ subs[id].kind = "heads" /\ pc[id].main = "init"
    /\ feeds' = [feeds EXCEPT ![id].newHeads = FeedSubscribe, ![id].reorgs = FeedSubscribe]
    /\ pc' = [pc EXCEPT ![id] = [@ EXCEPT !.main = "wait", !.hist = "run",
                                          !.reorgs = "run", !.live = "run"]]
    /\ Returns("SubscribeNewHeads", subs[id].conn, id, "ok")
    /\ UNCHANGED <<subscriptions, subs, loc, nextId, closed, calls, txWait, chain,
                   budget, history>>

\* sendHistoricalHeaders returns nil after the header it has just written
HistoricalDoneBefore(cur, latest) == cur + 1 >= latest
HistoricalDone(cur, latest) == cur = latest

\* one iteration of sendHistoricalHeaders' loop
sendHistoricalHeaders(id) ==
    /\ pc[id].hist = "run"
    /\ UNCHANGED <<subscriptions, subs, feeds, nextId, closed, calls, txWait, chain, history>>
    /\ IF Done(id)
       THEN /\ pc' = [pc EXCEPT ![id].hist = "done"]
            /\ Quiet /\ UNCHANGED <<loc, budget>>
       ELSE \E ok \in WriteOutcomes :
            /\ sendResponse("starknet_subscriptionNewHeads", id, loc[id].cur, ok)
            /\ budget' = Spend(ok)
            /\ IF ok /\ ~HistoricalDone(loc[id].cur, loc[id].latest) /\ loc[id].cur + 1 <= height
               THEN loc' = [loc EXCEPT ![id].cur = @ + 1] /\ UNCHANGED pc
               ELSE pc' = [pc EXCEPT ![id].hist = "done"] /\ UNCHANGED loc

\* one iteration of processNewHeaders' loop
processNewHeaders(id) ==
    /\ pc[id].live = "run"
    /\ UNCHANGED <<subscriptions, subs, loc, nextId, closed, calls, txWait, chain, history>>
    /\ \/ /\ Done(id)
          /\ pc' = [pc EXCEPT ![id].live = "done"]
          /\ Quiet /\ UNCHANGED <<feeds, budget>>
       \/ /\ feeds[id].newHeads.buf # <<>>
          /\ feeds' = [feeds EXCEPT ![id].newHeads = FeedRecv(@)]
          /\ \E ok \in WriteOutcomes :
             /\ sendResponse("starknet_subscriptionNewHeads", id,
                             Head(feeds[id].newHeads.buf), ok)
             /\ budget' = Spend(ok)
             /\ pc' = [pc EXCEPT ![id].live = IF ok THEN "run" ELSE "done"]

\* sendReorg
sendReorg(id, reorg, ok) == sendResponse("starknet_subscriptionReorg", id, reorg, ok)

\* one iteration of processReorgs' loop
processReorgs(id) ==
    /\ pc[id].reorgs = "run"
    /\ UNCHANGED <<subscriptions, subs, loc, nextId, closed, calls, txWait, chain, history>>
    /\ \/ /\ Done(id)
          /\ pc' = [pc EXCEPT ![id].reorgs = "done"]
          /\ Quiet /\ UNCHANGED <<feeds, budget>>
       \/ /\ feeds[id].reorgs.buf # <<>>
          /\ feeds' = [feeds EXCEPT ![id].reorgs = FeedRecv(@)]
          /\ \E ok \in WriteOutcomes :
             /\ sendReorg(id, Head(feeds[id].reorgs.buf), ok)
             /\ budget' = Spend(ok)
             /\ pc' = [pc EXCEPT ![id].reorgs = IF ok THEN "run" ELSE "done"]

\* the outer goroutine of a new-heads or transaction-status subscription:
\* wg.Wait() for its tasks, then the deferred unsubscribe
WaitTasks(id) ==
    /\ pc[id].main = "wait"
    /\ \A t \in {"hist", "reorgs", "live", "poll"} : ~Running(id, t)
    /\ Exit(id)
    /\ pc' = [pc EXCEPT ![id].main = "done"]
    /\ Quiet
    /\ UNCHANGED <<loc, nextId, closed, calls, txWait, chain, budget, history>>

(***************************************************************************)
(* SubscribeEvents                                                         *)
(***************************************************************************)
RECURSIVE SumLen(_)
SumLen(keys) == IF keys = <<>> THEN 0 ELSE Len(Head(keys)) + SumLen(Tail(keys))
\* lenKeys as the handler counts it
lenKeys(keys) == Len(keys) + SumLen(keys)

\* history of the event notifications, kept when evHist is switched on
NoEvHist == [count |-> [k \in Blocks |-> 0], first |-> [k \in Blocks |-> "none"],
             form |-> [k \in Blocks |-> "none"], reorgStart |-> 0, floor |-> 0,
             was |-> [reorgStart |-> 0, floor |-> 0]]
FormOf(e) == IF e.pending THEN "pending" ELSE "confirmed"
\* sendEvents has taken event e from the filter's result
EvTaken(h, e) ==
    IF h = None THEN h
    ELSE [h EXCEPT !.first[e.key] = IF @ = "none" THEN FormOf(e) ELSE @,
                   !.form[e.key] = FormOf(e)]
\* a notification containing e has been written
EvWritten(h, e) ==
    IF h = None THEN h
    ELSE [h EXCEPT !.count[e.key] = @ + 1, !.reorgStart = 0, !.floor = 0,
                   !.was = [reorgStart |-> h.reorgStart, floor |-> h.floor]]
\* a reorg starting at block b has been handled: reorgStart is the highest start
\* among the reorgs handled since the last events notification, floor the lowest
\* start among this reorg and the reorgs published since it was taken from the feed
EvReorg(h, b) ==
    IF h = None THEN h
    ELSE [h EXCEPT !.reorgStart = IF @ > b THEN @ ELSE b, !.floor = b]
\* a reorg starting at block b has been published
EvPublished(h, b) ==
    IF h = None \/ h.floor = 0 \/ h.floor <= b THEN h ELSE [h EXCEPT !.floor = b]

\* the error the handler returns before it creates anything, or ""
SubscribeEventsError(conn, keys, blockID) ==
    IF conn = NoConn THEN "method not found"
    ELSE IF lenKeys(keys) > MaxEventFilterKeys THEN "too many keys in filter"
    ELSE resolveBlockRange(blockID).err

\* the handler up to h.subscriptions.Store
SubscribeEvents(conn, keys, blockID) ==
    LET r == resolveBlockRange(blockID)
        err == SubscribeEventsError(conn, keys, blockID)
    IN
    /\ UNCHANGED <<closed, calls, txWait, chain, history>>
    /\ IF err # ""
       THEN Returns("SubscribeEvents", conn, 0, err) /\ UNCHANGED <<engine, budget>>
       ELSE /\ Register("events", conn, [NoLoc EXCEPT !.start = r.start, !.latest = r.latest])
            /\ Quiet

\* the rest of the handler: attach to the feeds, wg.Go, return the id
SubscribeEventsGo(id) ==
    /\ subs[id].kind = "events" /\ pc[id].main = "init"
    /\ feeds' = [feeds EXCEPT ![id].newHeads = FeedSubscribeKeepLast,
                              ![id].reorgs = FeedSubscribeKeepLast,
                              ![id].pendingBlock = FeedSubscribeKeepLast]
    /\ pc' = [pc EXCEPT ![id].main = "replay"]
    /\ Returns("SubscribeEvents", subs[id].conn, id, "ok")
    /\ UNCHANGED <<subscriptions, subs, loc, nextId, closed, calls, txWait, chain,
                   budget, history>>

\* where the goroutine is once processEvents has read the filter: the call is
\* made by the goroutine itself, which sends the events before its loop resumes
ReplaySpawned(events) == "loop"
ReplayCalled(events) == IF events = <<>> THEN "loop" ELSE "send"

\* processEvents(from, to) begins: the filter is read; `after` is the value
\* nextBlock takes once processEvents has returned
processEvents(id, from, to, after, track) ==
    LET events == FilterEvents(from, to) IN
    /\ loc' = [loc EXCEPT ![id].todo = events, ![id].after = after,
                          ![id].track = IF events = <<>> THEN TRUE ELSE track,
                          ![id].nextBlock = IF events = <<>> THEN after ELSE @]
    /\ pc' = [pc EXCEPT ![id].main = ReplayCalled(events)]

\* the goroutine's first statement: the replay of [requested, head]
EventsReplay(id) ==
    /\ subs[id].kind = "events" /\ pc[id].main = "replay"
    /\ processEvents(id, loc[id].start, loc[id].latest, loc[id].latest + 1, FALSE)
    /\ Quiet
    /\ UNCHANGED <<subscriptions, subs, feeds, nextId, closed, calls, txWait, chain,
                   budget, history>>

\* eventsPreviouslySent after sendEvents has looked at an event it does not skip
SentAfter(sent, e) == IF e.pending THEN sent \cup {e.key} ELSE sent \ {e.key}

\* processEvents returns to the goroutine's loop
EventsReturn(id, sent) ==
    /\ loc' = [loc EXCEPT ![id].todo = <<>>, ![id].sent = sent, ![id].track = TRUE,
                          ![id].nextBlock = loc[id].after]
    /\ pc' = [pc EXCEPT ![id].main = "loop"]

\* one iteration of sendEvents' loop: the next event of the filter's result
sendEvents(id) ==
    LET e == Head(loc[id].todo)
        rest == Tail(loc[id].todo)
        track == loc[id].track
        sent == loc[id].sent
    IN
    /\ subs[id].kind = "events" /\ pc[id].main = "send"
    /\ UNCHANGED <<subscriptions, subs, feeds, nextId, closed, calls, txWait, chain,
                   acked, sawFinal>>
    /\ IF Done(id)
       THEN /\ EventsReturn(id, sent)
            /\ Quiet /\ UNCHANGED <<budget, evHist>>
       ELSE IF track /\ e.key \in sent
       THEN /\ IF rest = <<>> THEN EventsReturn(id, sent)
               ELSE loc' = [loc EXCEPT ![id].todo = rest] /\ UNCHANGED pc
            /\ evHist' = EvTaken(evHist, e)
            /\ Quiet /\ UNCHANGED budget
       ELSE \E ok \in WriteOutcomes :
            LET sent2 == IF track THEN SentAfter(sent, e) ELSE sent IN
            /\ sendResponse("starknet_subscriptionEvents", id, e, ok)
            /\ budget' = Spend(ok)
            /\ evHist' = IF ok THEN EvWritten(EvTaken(evHist, e), e) ELSE EvTaken(evHist, e)
            /\ IF ok /\ rest # <<>>
               THEN loc' = [loc EXCEPT ![id].todo = rest, ![id].sent = sent2] /\ UNCHANGED pc
               ELSE EventsReturn(id, sent2)

\* nextBlock after a reorg has been handled
ReorgRewindBefore(reorg) == reorg.start - 1
ReorgRewind(reorg) == reorg.start

\* one iteration of the goroutine's loop
EventsLoop(id) ==
    /\ subs[id].kind = "events" /\ pc[id].main = "loop"
    /\ UNCHANGED <<nextId, closed, calls, txWait, chain, acked, sawFinal>>
    /\ \/ /\ Done(id)
          /\ Exit(id)
          /\ pc' = [pc EXCEPT ![id].main = "done"]
          /\ Quiet /\ UNCHANGED <<loc, budget, evHist>>
       \/ /\ feeds[id].reorgs.buf # <<>>
          /\ \E ok \in WriteOutcomes :
             LET reorg == Head(feeds[id].reorgs.buf) IN
             /\ sendReorg(id, reorg, ok)
             /\ budget' = Spend(ok)
             /\ IF ok
                THEN /\ loc' = [loc EXCEPT ![id].nextBlock = ReorgRewind(reorg)]
                     /\ feeds' = [feeds EXCEPT ![id].reorgs = FeedRecv(@)]
                     /\ evHist' = EvReorg(evHist, reorg.start)
                     /\ UNCHANGED <<subscriptions, subs, pc>>
                ELSE /\ Exit(id)
                     /\ pc' = [pc EXCEPT ![id].main = "done"]
                     /\ UNCHANGED <<loc, evHist>>
       \/ /\ feeds[id].newHeads.buf # <<>>
          /\ feeds' = [feeds EXCEPT ![id].newHeads = FeedRecv(@)]
          /\ LET head == Head(feeds[id].newHeads.buf) IN
             processEvents(id, loc[id].nextBlock, head, head + 1, TRUE)
          /\ Quiet /\ UNCHANGED <<subscriptions, subs, budget, evHist>>
       \/ /\ feeds[id].pendingBlock.buf # <<>>
          /\ feeds' = [feeds EXCEPT ![id].pendingBlock = FeedRecv(@)]
          /\ processEvents(id, loc[id].nextBlock, loc[id].nextBlock, loc[id].nextBlock, TRUE)
          /\ Quiet /\ UNCHANGED <<subscriptions, subs, budget, evHist>>

(***************************************************************************)
(* SubscribePendingTxs                                                     *)
(***************************************************************************)
filterTxBySenderAnyType(txn, senderAddr) ==
    IF Len(senderAddr) = 0 THEN TRUE
    ELSE \E i \in 1..Len(senderAddr) : senderAddr[i] = txn.sender
filterTxBySender(txn, senderAddr) ==
    IF Len(senderAddr) = 0 THEN TRUE
    ELSE /\ txn.type \in {"invoke", "declare"}
         /\ \E i \in 1..Len(senderAddr) : senderAddr[i] = txn.sender
\* filterTxs: the payloads to send for a pending block's transactions
RECURSIVE filterTxs(_, _, _)
filterTxs(pendingTxs, getDetails, senderAddr) ==
    IF pendingTxs = <<>> THEN <<>>
    ELSE LET txn == Tx(Head(pendingTxs))
             rest == filterTxs(Tail(pendingTxs), getDetails, senderAddr)
         IN IF ~filterTxBySender(txn, senderAddr) THEN rest
            ELSE IF getDetails THEN <<[hash |-> txn.hash, body |-> txn]>> \o rest
            ELSE <<[hash |-> txn.hash, body |-> None]>> \o rest

\* the error the handler returns before it creates anything, or ""
SubscribePendingTxsNoConnCheck(conn, senderAddr) ==
    IF Len(senderAddr) > MaxEventFilterKeys THEN "too many addresses in filter" ELSE ""
SubscribePendingTxsError(conn, senderAddr) ==
    IF conn = NoConn THEN "method not found"
    ELSE IF Len(senderAddr) > MaxEventFilterKeys THEN "too many addresses in filter"
    ELSE ""

\* getDetails != nil && *getDetails
GetDetailsUnlessFalse(getDetails) == getDetails # "false"
GetDetails(getDetails) == getDetails = "true"

\* the handler up to h.subscriptions.Store; getDetails is "nil", "true" or "false"
SubscribePendingTxs(conn, getDetails, senderAddr) ==
    LET err == SubscribePendingTxsError(conn, senderAddr) IN
    /\ UNCHANGED <<closed, calls, txWait, chain, history>>
    /\ IF err # ""
       THEN Returns("SubscribePendingTxs", conn, 0, err) /\ UNCHANGED <<engine, budget>>
       ELSE /\ Register("pendingTxs", conn, [NoLoc EXCEPT !.details = GetDetails(getDetails),
                                                          !.senders = senderAddr])
            /\ Quiet

\* the rest of the handler: attach to the feed, wg.Go, return the id
SubscribePendingTxsGo(id) ==
    /\ subs[id].kind = "pendingTxs" /\ pc[id].main = "init"
    /\ feeds' = [feeds EXCEPT ![id].pendingBlock = FeedSubscribe]
    /\ pc' = [pc EXCEPT ![id].main = "loop"]
    /\ Returns("SubscribePendingTxs", subs[id].conn, id, "ok")
    /\ UNCHANGED <<subscriptions, subs, loc, nextId, closed, calls, txWait, chain,
                   budget, history>>

\* processPendingTxs at its select
processPendingTxs(id) ==
    /\ subs[id].kind = "pendingTxs" /\ pc[id].main = "loop"
    /\ Quiet
    /\ UNCHANGED <<nextId, closed, calls, txWait, chain, budget, history>>
    /\ \/ /\ Done(id)
          /\ Exit(id)
          /\ pc' = [pc EXCEPT ![id].main = "done"]
          /\ UNCHANGED loc
       \/ /\ feeds[id].pendingBlock.buf # <<>>
          /\ feeds' = [feeds EXCEPT ![id].pendingBlock = FeedRecv(@)]
          /\ LET txs == filterTxs(Head(feeds[id].pendingBlock.buf), loc[id].details,
                                  loc[id].senders)
             IN /\ loc' = [loc EXCEPT ![id].todo = txs,
                                      ![id].recv = IF written.on
                                                   THEN Append(@, Head(feeds[id].pendingBlock.buf))
                                                   ELSE @]
                /\ pc' = [pc EXCEPT ![id].main = IF txs = <<>> THEN "loop" ELSE "send"]
          /\ UNCHANGED <<subscriptions, subs>>

\* processPendingTxs sends the next transaction of the block it received
sendPendingTxs(id) ==
    /\ subs[id].kind = "pendingTxs" /\ pc[id].main = "send"
    /\ UNCHANGED <<nextId, closed, calls, txWait, chain, history>>
    /\ \E ok \in WriteOutcomes :
       /\ sendResponse("starknet_subscriptionPendingTransactions", id, Head(loc[id].todo), ok)
       /\ budget' = Spend(ok)
       /\ IF ok
          THEN /\ loc' = [loc EXCEPT ![id].todo = Tail(@)]
               /\ pc' = [pc EXCEPT ![id].main = IF Tail(loc[id].todo) = <<>> THEN "loop"
                                                ELSE "send"]
               /\ UNCHANGED <<subscriptions, subs, feeds>>
          ELSE /\ Exit(id)
               /\ loc' = [loc EXCEPT ![id].todo = <<>>]
               /\ pc' = [pc EXCEPT ![id].main = "done"]

(***************************************************************************)
(* SubscribeTransactionStatus                                              *)
(***************************************************************************)
\* the handler's first lookup
SubscribeTransactionStatus(conn) ==
    /\ UNCHANGED <<closed, calls, chain, history>>
    /\ IF conn = NoConn
       THEN Returns("SubscribeTransactionStatus", conn, 0, "method not found")
            /\ UNCHANGED <<engine, budget, txWait>>
       ELSE \E res \in TransactionStatus :
            IF res = "notFound"
            THEN /\ conn \notin txWait
                 /\ txWait' = txWait \cup {conn}
                 /\ Quiet /\ UNCHANGED <<engine, budget>>
            ELSE IF ~IsStatus(res)
            THEN Returns("SubscribeTransactionStatus", conn, 0, res)
                 /\ UNCHANGED <<engine, budget, txWait>>
            ELSE /\ Register("txStatus", conn, [NoLoc EXCEPT !.status = res])
                 /\ Quiet /\ UNCHANGED txWait

\* txNotFoundLoop, case <-ticker.C: look the transaction up again
TxNotFoundTick(conn) ==
    /\ conn \in txWait
    /\ UNCHANGED <<closed, calls, chain, history>>
    /\ \E res \in TransactionStatus \ {"notFound"} :
       /\ txWait' = txWait \ {conn}
       /\ IF ~IsStatus(res)
          THEN Returns("SubscribeTransactionStatus", conn, 0, res)
               /\ UNCHANGED <<engine, budget>>
          ELSE /\ Register("txStatus", conn, [NoLoc EXCEPT !.status = res])
               /\ Quiet

\* txNotFoundLoop, case <-timeout.C
TxNotFoundTimeoutAfterIdgen(conn) ==
    /\ conn \in txWait
    /\ txWait' = txWait \ {conn}
    /\ nextId' = nextId + 1
    /\ Returns("SubscribeTransactionStatus", conn, 0, "transaction hash not found")
    /\ UNCHANGED <<subscriptions, subs, pc, loc, feeds, budget, closed, calls, chain,
                   history>>
TxNotFoundTimeout(conn) ==
    /\ conn \in txWait
    /\ txWait' = txWait \ {conn}
    /\ Returns("SubscribeTransactionStatus", conn, 0, "transaction hash not found")
    /\ UNCHANGED <<engine, budget, closed, calls, chain, history>>

\* the rest of the handler: attach to the feeds, wg.Go, return the id
SubscribeTransactionStatusGo(id) ==
    /\ subs[id].kind = "txStatus" /\ pc[id].main = "init"
    /\ feeds' = [feeds EXCEPT ![id].pendingBlock = FeedSubscribe,
                              ![id].l1Heads = FeedSubscribe,
                              ![id].reorgs = FeedSubscribe]
    /\ pc' = [pc EXCEPT ![id].main = "first"]
    /\ Returns("SubscribeTransactionStatus", subs[id].conn, id, "ok")
    /\ UNCHANGED <<subscriptions, subs, loc, nextId, closed, calls, txWait, chain,
                   budget, history>>

sendTxnStatus(id, status, ok) ==
    sendResponse("starknet_subscriptionTransactionsStatus", id, status, ok)

\* the goroutine up to wg.Wait(): the first status, then the two tasks
TxStatusFirst(id) ==
    /\ subs[id].kind = "txStatus" /\ pc[id].main = "first"
    /\ UNCHANGED <<loc, nextId, closed, calls, txWait, chain, acked, evHist>>
    /\ \E ok \in WriteOutcomes :
       /\ sendTxnStatus(id, loc[id].status, ok)
       /\ budget' = Spend(ok)
       /\ sawFinal' = IF IsFinal(loc[id].status) THEN sawFinal \cup {id} ELSE sawFinal
       /\ IF ~ok \/ IsFinal(loc[id].status)
          THEN Exit(id) /\ pc' = [pc EXCEPT ![id].main = "done"]
          ELSE /\ pc' = [pc EXCEPT ![id] = [@ EXCEPT !.main = "wait", !.poll = "run",
                                                     !.reorgs = "run"]]
               /\ UNCHANGED <<subscriptions, subs, feeds>>

\* TransactionReceiptByHash: the receipt's finality, or the error
TransactionReceiptByHash ==
    IF txStatus \in {"acceptedL2", "acceptedL1"} THEN txStatus ELSE "transaction hash not found"

\* curStatus.Finality > prevStatus.Finality
IncreasedOrSame(res, cur) == Finality[res] >= Finality[cur]
Increased(res, cur) == Finality[res] > Finality[cur]

\* one iteration of the loop of the goroutine's first task
TxStatusPoll(id) ==
    LET cur == loc[id].status IN
    /\ subs[id].kind = "txStatus" /\ pc[id].poll = "run"
    /\ UNCHANGED <<subscriptions, subs, nextId, closed, calls, txWait, chain, acked, evHist>>
    /\ \/ /\ Done(id)
          /\ pc' = [pc EXCEPT ![id].poll = "done"]
          /\ Quiet /\ UNCHANGED <<loc, feeds, budget, sawFinal>>
       \/ /\ feeds[id].pendingBlock.buf # <<>>
          /\ feeds' = [feeds EXCEPT ![id].pendingBlock = FeedRecv(@)]
          /\ IF Finality[cur] >= Finality.acceptedL2
             THEN Quiet /\ UNCHANGED <<pc, loc, budget, sawFinal>>
             ELSE \E res \in TransactionStatus :
                  IF ~IsStatus(res)
                  THEN /\ pc' = [pc EXCEPT ![id].poll = "done"]
                       /\ Quiet /\ UNCHANGED <<loc, budget, sawFinal>>
                  ELSE /\ loc' = [loc EXCEPT ![id].status = res]
                       /\ IF Increased(res, cur)
                          THEN \E ok \in WriteOutcomes :
                               /\ sendTxnStatus(id, res, ok)
                               /\ budget' = Spend(ok)
                               /\ sawFinal' = IF IsFinal(res) THEN sawFinal \cup {id}
                                              ELSE sawFinal
                               /\ pc' = [pc EXCEPT ![id].poll =
                                            IF ~ok \/ IsFinal(res) THEN "done" ELSE "run"]
                          ELSE Quiet /\ UNCHANGED <<pc, budget, sawFinal>>
       \/ /\ feeds[id].l1Heads.buf # <<>>
          /\ feeds' = [feeds EXCEPT ![id].l1Heads = FeedRecv(@)]
          /\ UNCHANGED loc
          /\ IF ~IsStatus(TransactionReceiptByHash)
             THEN /\ pc' = [pc EXCEPT ![id].poll = "done"]
                  /\ Quiet /\ UNCHANGED <<budget, sawFinal>>
             ELSE IF TransactionReceiptByHash = "acceptedL1"
             THEN \E ok \in WriteOutcomes :
                  /\ sendTxnStatus(id, "acceptedL1", ok)
                  /\ budget' = Spend(ok)
                  /\ sawFinal' = sawFinal \cup {id}
                  /\ pc' = [pc EXCEPT ![id].poll = "done"]
             ELSE Quiet /\ UNCHANGED <<pc, budget, sawFinal>>

(***************************************************************************)
(* Unsubscribe                                                             *)
(***************************************************************************)
\* conn.Equal: the two handles are the same connection
Equal(c1, c2) == c1 = c2

\* the error Unsubscribe returns before it cancels anything, or ""
UnsubscribeAnyConn(conn, id) ==
    IF conn = NoConn THEN "method not found"
    ELSE IF id \notin subscriptions THEN "invalid subscription id"
    ELSE ""
UnsubscribeError(conn, id) ==
    IF conn = NoConn THEN "method not found"
    ELSE IF id \notin subscriptions THEN "invalid subscription id"
    ELSE IF ~Equal(subs[id].conn, conn) THEN "invalid subscription id"
    ELSE ""

\* subs.cancel(): the cancel function of the subscription's own context
UnsubscribeCancelConn(id) ==
    [k \in Ids |-> IF subs[k].conn = subs[id].conn THEN [subs[k] EXCEPT !.cancelled = TRUE]
                   ELSE subs[k]]
UnsubscribeCancel(id) == [subs EXCEPT ![id].cancelled = TRUE]

\* the handler up to wg.Wait(): the checks and the cancel
Unsubscribe(r, conn, id) ==
    LET err == UnsubscribeError(conn, id) IN
    /\ calls[r] = None
    /\ UNCHANGED <<subscriptions, pc, loc, feeds, nextId, closed, txWait, chain, budget,
                   history>>
    /\ IF err # ""
       THEN Returns("Unsubscribe", conn, id, err) /\ UNCHANGED <<subs, calls>>
       ELSE /\ subs' = UnsubscribeCancel(id)
            /\ calls' = [calls EXCEPT ![r] = [conn |-> conn, id |-> id]]
            /\ Quiet

\* h.subscriptions.Delete(id) at the end of Unsubscribe
UnsubscribeDeleteNothing(id) == subscriptions
UnsubscribeDelete(id) == subscriptions \ {id}

\* wg.Wait() has returned: delete the entry and answer true
UnsubscribeReturn(r) ==
    /\ calls[r] # None
    /\ WgEmpty(calls[r].id)
    /\ subscriptions' = UnsubscribeDelete(calls[r].id)
    /\ calls' = [calls EXCEPT ![r] = None]
    /\ acked' = acked \cup {calls[r].id}
    /\ Returns("Unsubscribe", calls[r].conn, calls[r].id, "true")
    /\ UNCHANGED <<subs, pc, loc, feeds, nextId, closed, txWait, chain, budget,
                   sawFinal, evHist>>

(***************************************************************************)
(* The environment: the transport and the chain.                           *)
(***************************************************************************)
\* a connection that holds a subscription closes: its request context is cancelled
Close(conn) ==
    /\ conn \notin closed
    /\ \E id \in Ids : subs[id].conn = conn
    /\ closed' = closed \cup {conn}
    /\ Quiet
    /\ UNCHANGED <<engine, calls, txWait, chain, budget, history>>

\* a block is added to the chain and published on newHeads
NewBlock ==
    /\ budget.pub > 0
    /\ budget' = [budget EXCEPT !.pub = @ - 1]
    /\ height' = height + 1
    /\ pendingHas' = FALSE
    /\ feeds' = Publish("newHeads", height + 1)
    /\ Quiet
    /\ UNCHANGED <<subscriptions, subs, pc, loc, nextId, closed, calls, txWait, txStatus,
                   history>>

\* blocks start..height are reverted and the range is published on reorgs
Reorg(start) ==
    /\ budget.pub > 0
    /\ start \in 1..height
    /\ budget' = [budget EXCEPT !.pub = @ - 1]
    /\ height' = start - 1
    /\ pendingHas' = FALSE
    /\ feeds' = Publish("reorgs", [start |-> start, end |-> height])
    /\ evHist' = EvPublished(evHist, start)
    /\ Quiet
    /\ UNCHANGED <<subscriptions, subs, pc, loc, nextId, closed, calls, txWait, txStatus,
                   acked, sawFinal>>

\* the pending block is updated, now holding transactions txs, and published
PendingUpdate(txs) ==
    /\ budget.pub > 0
    /\ budget' = [budget EXCEPT !.pub = @ - 1]
    /\ pendingHas' = TRUE
    /\ feeds' = Publish("pendingBlock", txs)
    /\ Quiet
    /\ UNCHANGED <<subscriptions, subs, pc, loc, nextId, closed, calls, txWait, height,
                   txStatus, history>>

\* a new L1 head is published
L1Head ==
    /\ budget.pub > 0
    /\ budget' = [budget EXCEPT !.pub = @ - 1]
    /\ feeds' = Publish("l1Heads", "l1head")
    /\ Quiet
    /\ UNCHANGED <<subscriptions, subs, pc, loc, nextId, closed, calls, txWait, chain,
                   history>>

\* the finality the gateway can report after st
NextStatus(st) ==
    CASE st = "notFound" -> {"received"}
      [] st = "received" -> {"rejected", "acceptedL2"}
      [] st = "acceptedL2" -> {"acceptedL1"}
      [] OTHER -> {}
\* the watched transaction moves up the ladder
TxAdvance ==
    /\ \E st \in NextStatus(txStatus) : txStatus' = st
    /\ Quiet
    /\ UNCHANGED <<engine, closed, calls, txWait, height, pendingHas, budget, history>>

\* a reorg takes the watched transaction out of its block
TxRevert ==
    /\ txStatus = "acceptedL2"
    /\ txStatus' = "received"
    /\ Quiet
    /\ UNCHANGED <<engine, closed, calls, txWait, height, pendingHas, budget, history>>

(***************************************************************************)
(* Spec: every kind of subscription, every caller.                         *)
(***************************************************************************)
NoWritten == [on |-> FALSE, seq |-> <<>>]
AllWritten == [on |-> TRUE, seq |-> <<>>]
InitWith(b, h, st, w) ==
    /\ subscriptions = {}
    /\ subs = [id \in Ids |-> NoSub]
    /\ pc = [id \in Ids |-> NoPc]
    /\ loc = [id \in Ids |-> NoLoc]
    /\ feeds = [id \in Ids |-> NoFeeds]
    /\ closed = {}
    /\ nextId = 1
    /\ calls = [r \in Callers |-> None]
    /\ txWait = {}
    /\ height = InitHeight
    /\ pendingHas = FALSE
    /\ txStatus = st
    /\ budget = b
    /\ lastWrite = None
    /\ lastCall = None
    /\ acked = {}
    /\ wfails = [id \in Ids |-> 0]
    /\ sawFinal = {}
    /\ evHist = h
    /\ written = w
    /\ handler = <<>>
    /\ req = NoRequest
    /\ trace = <<>>
    /\ reports = <<>>
    /\ served = 0
    /\ http = NoHTTP

Init == InitWith([subs |-> MaxSubs, pub |-> MaxPublish, fail |-> MaxWriteFail], None,
                 "received", NoWritten)

Next ==
    \/ \E c \in Conns \cup {NoConn} : SubscribeNewHeads(c, Latest)
    \/ \E c \in Conns \cup {NoConn} : SubscribeEvents(c, <<>>, Latest)
    \/ \E c \in Conns \cup {NoConn} : SubscribePendingTxs(c, "nil", <<>>)
    \/ \E c \in Conns \cup {NoConn} : SubscribeTransactionStatus(c)
    \/ \E id \in Ids :
          \/ SubscribeNewHeadsGo(id)
          \/ sendHistoricalHeaders(id)
          \/ processNewHeaders(id)
          \/ processReorgs(id)
          \/ WaitTasks(id)
          \/ SubscribeEventsGo(id)
          \/ EventsReplay(id)
          \/ sendEvents(id)
          \/ EventsLoop(id)
          \/ SubscribePendingTxsGo(id)
          \/ processPendingTxs(id)
          \/ sendPendingTxs(id)
          \/ SubscribeTransactionStatusGo(id)
          \/ TxStatusFirst(id)
          \/ TxStatusPoll(id)
    \/ \E c \in Conns \cup {NoConn}, id \in AnyIds : Unsubscribe("r1", c, id)
    \/ UnsubscribeReturn("r1")
    \/ \E c \in Conns : Close(c)
    \/ NewBlock
    \/ \E b \in Blocks : Reorg(b)
    \/ PendingUpdate(<<"h1", "h2">>)
    \/ L1Head
    \/ TxAdvance

Spec == Init /\ [][Next]_vars

\* SpecCalls: the same steps around a single subscription and a shorter run of
\* the chain: every caller, with and without a connection, against every id
InitCalls == InitWith([subs |-> 1, pub |-> CallsMaxPublish, fail |-> CallsMaxWriteFail],
                      None, "received", NoWritten)
SpecCalls == InitCalls /\ [][Next]_vars

(***************************************************************************)
(* SpecOne: one subscription of any kind on connection c1, its owner's     *)
(* Unsubscribe and the connection's close.  FairSpec adds the scheduler's  *)
(* fairness: every goroutine that can take a step eventually takes one.    *)
(***************************************************************************)
InitOne == InitWith([subs |-> 1, pub |-> OneMaxPublish, fail |-> OneMaxWriteFail], None,
                    "received", NoWritten)

Subscribe(c) ==
    \/ SubscribeNewHeads(c, Latest)
    \/ SubscribeEvents(c, <<>>, Latest)
    \/ SubscribePendingTxs(c, "nil", <<>>)
    \/ SubscribeTransactionStatus(c)

NextOne ==
    \/ Subscribe("c1")
    \/ SubscribeNewHeadsGo(1)
    \/ sendHistoricalHeaders(1)
    \/ processNewHeaders(1)
    \/ processReorgs(1)
    \/ WaitTasks(1)
    \/ SubscribeEventsGo(1)
    \/ EventsReplay(1)
    \/ sendEvents(1)
    \/ EventsLoop(1)
    \/ SubscribePendingTxsGo(1)
    \/ processPendingTxs(1)
    \/ sendPendingTxs(1)
    \/ SubscribeTransactionStatusGo(1)
    \/ TxStatusFirst(1)
    \/ TxStatusPoll(1)
    \/ Unsubscribe("r1", "c1", 1)
    \/ UnsubscribeReturn("r1")
    \/ Close("c1")
    \/ NewBlock
    \/ \E b \in Blocks : Reorg(b)
    \/ PendingUpdate(<<"h1", "h2">>)
    \/ L1Head
    \/ TxAdvance

SpecOne == InitOne /\ [][NextOne]_vars

Fairness ==
    /\ WF_vars(SubscribeNewHeadsGo(1)) /\ WF_vars(sendHistoricalHeaders(1))
    /\ WF_vars(processNewHeaders(1)) /\ WF_vars(processReorgs(1)) /\ WF_vars(WaitTasks(1))
    /\ WF_vars(SubscribeEventsGo(1)) /\ WF_vars(EventsReplay(1))
    /\ WF_vars(sendEvents(1)) /\ WF_vars(EventsLoop(1))
    /\ WF_vars(SubscribePendingTxsGo(1)) /\ WF_vars(processPendingTxs(1))
    /\ WF_vars(sendPendingTxs(1))
    /\ WF_vars(SubscribeTransactionStatusGo(1)) /\ WF_vars(TxStatusFirst(1))
    /\ WF_vars(TxStatusPoll(1))
    /\ WF_vars(UnsubscribeReturn("r1"))

FairSpec == SpecOne /\ Fairness

\* SpecUnsub: one subscription on connection c1 and two callers on that
\* connection whose Unsubscribe calls can overlap
NextUnsub ==
    \/ Subscribe("c1")
    \/ SubscribeNewHeadsGo(1)
    \/ sendHistoricalHeaders(1)
    \/ processNewHeaders(1)
    \/ processReorgs(1)
    \/ WaitTasks(1)
    \/ SubscribeEventsGo(1)
    \/ EventsReplay(1)
    \/ sendEvents(1)
    \/ EventsLoop(1)
    \/ SubscribePendingTxsGo(1)
    \/ processPendingTxs(1)
    \/ sendPendingTxs(1)
    \/ SubscribeTransactionStatusGo(1)
    \/ TxStatusFirst(1)
    \/ TxStatusPoll(1)
    \/ \E r \in Callers : Unsubscribe(r, "c1", 1)
    \/ \E r \in Callers : UnsubscribeReturn(r)
    \/ Close("c1")
    \/ NewBlock
    \/ \E b \in Blocks : Reorg(b)
    \/ PendingUpdate(<<"h1", "h2">>)
    \/ L1Head
    \/ TxAdvance

SpecUnsub == InitOne /\ [][NextUnsub]_vars

(***************************************************************************)
(* SpecEvents: one events subscription over a longer run of the chain,     *)
(* with the history of its event notifications.                            *)
(***************************************************************************)
InitEvents == InitWith([subs |-> 1, pub |-> EvMaxPublish, fail |-> EvMaxWriteFail],
                       NoEvHist, "received", NoWritten)

NextEvents ==
    \/ \E b \in {Latest, BlockNumber(0)} : SubscribeEvents("c1", <<>>, b)
    \/ SubscribeEventsGo(1)
    \/ EventsReplay(1)
    \/ sendEvents(1)
    \/ EventsLoop(1)
    \/ Close("c1")
    \/ NewBlock
    \/ \E b \in Blocks : Reorg(b)
    \/ PendingUpdate(<<>>)

SpecEvents == InitEvents /\ [][NextEvents]_vars

\* an events subscription on a chain that only grows: blocks and pending-block
\* updates are published, nothing is reverted and every write succeeds
InitReplay == InitWith([subs |-> 1, pub |-> RpMaxPublish, fail |-> 0],
                       NoEvHist, "received", AllWritten)

NextReplay ==
    \/ \E b \in {Latest, BlockNumber(0)} : SubscribeEvents("c1", <<>>, b)
    \/ SubscribeEventsGo(1)
    \/ EventsReplay(1)
    \/ sendEvents(1)
    \/ EventsLoop(1)
    \/ Close("c1")
    \/ NewBlock
    \/ PendingUpdate(<<>>)

SpecReplay == InitReplay /\ [][NextReplay]_vars

(***************************************************************************)
(* SpecHeads: one new-heads subscription on a chain that only grows, every *)
(* write succeeding, with the sequence of its notifications.               *)
(***************************************************************************)
InitHeads == InitWith([subs |-> 1, pub |-> HdMaxPublish, fail |-> 0], None, "received",
                      AllWritten)

NextHeads ==
    \/ \E b \in {Latest, BlockNumber(0)} : SubscribeNewHeads("c1", b)
    \/ SubscribeNewHeadsGo(1)
    \/ sendHistoricalHeaders(1)
    \/ processNewHeaders(1)
    \/ processReorgs(1)
    \/ WaitTasks(1)
    \/ Close("c1")
    \/ NewBlock

SpecHeads == InitHeads /\ [][NextHeads]_vars

(***************************************************************************)
(* SpecArgs: SubscribeNewHeads and SubscribeEvents called with every block *)
(* id and every key filter, on a chain that grows.                         *)
(***************************************************************************)
\* key filters: outer lists of inner lists of keys
KeyLists == {<<>>, <<<<"k1">>>>, <<<<"k1">>, <<"k2">>>>, <<<<"k1", "k2">>>>,
             <<<<"k1", "k2", "k3">>>>, <<<<>>, <<>>, <<>>>>}

InitArgs == InitWith([subs |-> 1, pub |-> ArgMaxPublish, fail |-> 0], None, "received",
                     NoWritten)

NextArgs ==
    \/ \E b \in BlockIds : SubscribeNewHeads("c1", b)
    \/ \E keys \in KeyLists, b \in BlockIds : SubscribeEvents("c1", keys, b)
    \/ SubscribeNewHeadsGo(1)
    \/ sendHistoricalHeaders(1)
    \/ processNewHeaders(1)
    \/ processReorgs(1)
    \/ WaitTasks(1)
    \/ SubscribeEventsGo(1)
    \/ EventsReplay(1)
    \/ sendEvents(1)
    \/ EventsLoop(1)
    \/ Close("c1")
    \/ NewBlock

SpecArgs == InitArgs /\ [][NextArgs]_vars

(***************************************************************************)
(* SpecIds: new-heads and events subscriptions of one connection, created  *)
(* and unsubscribed in any order.                                          *)
(***************************************************************************)
InitIds == InitWith([subs |-> 2, pub |-> IdMaxPublish, fail |-> 0], None, "received",
                    NoWritten)

NextIds ==
    \/ SubscribeNewHeads("c1", Latest)
    \/ SubscribeEvents("c1", <<>>, Latest)
    \/ \E id \in Ids :
          \/ SubscribeNewHeadsGo(id)
          \/ sendHistoricalHeaders(id)
          \/ processNewHeaders(id)
          \/ processReorgs(id)
          \/ WaitTasks(id)
          \/ SubscribeEventsGo(id)
          \/ EventsReplay(id)
          \/ sendEvents(id)
          \/ EventsLoop(id)
          \/ Unsubscribe("r1", "c1", id)
    \/ UnsubscribeReturn("r1")
    \/ NewBlock

SpecIds == InitIds /\ [][NextIds]_vars

(***************************************************************************)
(* SpecTwo: two subscriptions, new-heads or events, each on either         *)
(* connection, on a chain that grows and reverts.                          *)
(***************************************************************************)
InitTwo == InitWith([subs |-> 2, pub |-> TwoMaxPublish, fail |-> 0], None, "received",
                    NoWritten)

NextTwo ==
    \/ \E c \in Conns : SubscribeNewHeads(c, Latest)
    \/ \E c \in Conns : SubscribeEvents(c, <<>>, Latest)
    \/ \E id \in Ids :
          \/ SubscribeNewHeadsGo(id)
          \/ sendHistoricalHeaders(id)
          \/ processNewHeaders(id)
          \/ processReorgs(id)
          \/ WaitTasks(id)
          \/ SubscribeEventsGo(id)
          \/ EventsReplay(id)
          \/ sendEvents(id)
          \/ EventsLoop(id)
    \/ \E c \in Conns : Close(c)
    \/ NewBlock
    \/ \E b \in Blocks : Reorg(b)

SpecTwo == InitTwo /\ [][NextTwo]_vars

(***************************************************************************)
(* SpecPending: one pending-transactions subscription, with every          *)
(* getDetails and sender list, and the sequence of its notifications.      *)
(***************************************************************************)
SenderLists == {<<>>, <<"a1">>, <<"a2", "a3">>, <<"a1", "a2", "a3">>,
                <<"a1", "a2", "a3", "a4">>}
PendingBlocks == {<<>>, <<"h1", "h2", "h3">>, <<"h3", "h2">>}

InitPending == InitWith([subs |-> 1, pub |-> PdMaxPublish, fail |-> PdMaxWriteFail], None,
                        "received", AllWritten)

NextPending ==
    \/ \E g \in {"nil", "true", "false"}, senderAddr \in SenderLists :
          SubscribePendingTxs("c1", g, senderAddr)
    \/ SubscribePendingTxsGo(1)
    \/ processPendingTxs(1)
    \/ sendPendingTxs(1)
    \/ Close("c1")
    \/ \E txs \in PendingBlocks : PendingUpdate(txs)

SpecPending == InitPending /\ [][NextPending]_vars

(***************************************************************************)
(* Server.WithRequestMiddleware, MetricsReporterMiddleware and a request   *)
(* going down the chain to handleRequest and back up.                      *)
(***************************************************************************)
\* the rest of the state, which the server's request path does not touch
NoEngineStep ==
    /\ lastWrite' = None /\ lastCall' = None
    /\ UNCHANGED <<engine, closed, calls, txWait, chain, budget, history, wfails, written,
                   http>>

\* s.handler = func(ctx, req) { return middleware(ctx, req, handler) }
WrapInside(h, m) == <<m>> \o h
Wrap(h, m) == Append(h, m)

WithRequestMiddleware(m) ==
    /\ req.dir = "done"
    /\ Len(handler) < MaxMiddlewares
    /\ handler' = Wrap(handler, [kind |-> m.kind, rep |-> m.rep, n |-> Len(handler) + 1])
    /\ NoEngineStep
    /\ UNCHANGED <<req, trace, reports, served>>

\* Server.Handle hands the request to s.handler, the outermost middleware
Handle(method) ==
    /\ req.dir = "done"
    /\ served < MaxRequests
    /\ served' = served + 1
    /\ req' = [method |-> method, at |-> Len(handler), dir |-> "down",
               resp |-> NilResponse, err |-> FALSE, asked |-> method, seen |-> NoSeen]
    /\ trace' = <<>>
    /\ reports' = <<>>
    /\ NoEngineStep
    /\ UNCHANGED handler

\* the request enters a middleware, which calls next or answers by itself
MiddlewareCall ==
    /\ req.dir = "down" /\ req.at > 0
    /\ LET m == handler[req.at] IN
       IF m.kind = "short"
       THEN \E resp \in Responses :
            /\ req' = [req EXCEPT !.resp = resp, !.dir = "up", !.at = @ + 1]
            /\ trace' = trace \o <<Entered(m.n), Left(m.n)>>
       ELSE /\ req' = [req EXCEPT !.at = @ - 1]
            /\ trace' = Append(trace, Entered(m.n))
    /\ NoEngineStep
    /\ UNCHANGED <<handler, reports, served>>

\* s.handleRequest, the terminal dispatcher: some response, or an error
handleRequest ==
    /\ req.dir = "down" /\ req.at = 0
    /\ \E out \in Outcomes :
       req' = [req EXCEPT !.resp = out.resp, !.err = out.err, !.dir = "up", !.at = 1,
                          !.seen = [method |-> req.method, resp |-> out.resp,
                                    err |-> out.err, times |-> @.times + 1]]
    /\ trace' = trace \o <<Entered(0), Left(0)>>
    /\ NoEngineStep
    /\ UNCHANGED <<handler, reports, served>>

\* resp != nil && resp.Error != nil
ReportsErrorAnyResponse(resp) == ~resp.nil
ReportsError(resp) == ~resp.nil /\ resp.hasError

\* the calls MetricsReporterMiddleware makes on its reporter after next returns
MetricsReportsSkipNil(m, method, resp) ==
    IF resp.nil THEN <<>>
    ELSE <<[rep |-> m.rep, mw |-> m.n, call |-> "ReportRequest", method |-> method,
            code |-> 0],
           [rep |-> m.rep, mw |-> m.n, call |-> "ReportRequestDuration", method |-> method,
            code |-> 0]>>
         \o (IF ReportsError(resp)
             THEN <<[rep |-> m.rep, mw |-> m.n, call |-> "ReportRequestError",
                     method |-> method, code |-> resp.code]>>
             ELSE <<>>)
MetricsReports(m, method, resp) ==
    <<[rep |-> m.rep, mw |-> m.n, call |-> "ReportRequest", method |-> method, code |-> 0],
      [rep |-> m.rep, mw |-> m.n, call |-> "ReportRequestDuration", method |-> method,
       code |-> 0]>>
    \o (IF ReportsError(resp)
        THEN <<[rep |-> m.rep, mw |-> m.n, call |-> "ReportRequestError",
                method |-> method, code |-> resp.code]>>
        ELSE <<>>)

\* return resp, err
MetricsReturnNoError(resp, err) == [resp |-> resp, err |-> FALSE]
MetricsReturn(resp, err) == [resp |-> resp, err |-> err]

\* next has returned to a metrics middleware: it reports and returns resp, err
MiddlewareReturn ==
    /\ req.dir = "up" /\ req.at \in 1..Len(handler)
    /\ LET m == handler[req.at] IN
       /\ reports' = reports \o MetricsReports(m, req.method, req.resp)
       /\ trace' = Append(trace, Left(m.n))
    /\ req' = [req EXCEPT !.at = @ + 1,
                          !.resp = MetricsReturn(req.resp, req.err).resp,
                          !.err = MetricsReturn(req.resp, req.err).err]
    /\ NoEngineStep
    /\ UNCHANGED <<handler, served>>

\* the outermost middleware has returned to Server.Handle
HandleReturn ==
    /\ req.dir = "up" /\ req.at = Len(handler) + 1
    /\ req' = [req EXCEPT !.dir = "done"]
    /\ NoEngineStep
    /\ UNCHANGED <<handler, trace, reports, served>>

InitMiddleware == InitWith([subs |-> 0, pub |-> 0, fail |-> 0], None, "received", NoWritten)

NextMiddleware ==
    \/ \E m \in Middlewares : WithRequestMiddleware(m)
    \/ \E method \in Methods : Handle(method)
    \/ MiddlewareCall
    \/ handleRequest
    \/ MiddlewareReturn
    \/ HandleReturn

SpecMiddleware == InitMiddleware /\ [][NextMiddleware]_vars

(***************************************************************************)
(* HTTP.ServeHTTP                                                          *)
(***************************************************************************)
\* the status of a GET
GetStatusAlwaysOK(path) == 200
GetStatus(path) == IF path = "/" THEN 200 ELSE 404

\* if resp != nil { writer.Write(resp) }
WritesBodyOnSuccess(resp, err) == resp # NoBytes /\ ~err
WritesBody(resp, err) == resp # NoBytes

\* the writer after the POST branch has handled the core's answer
PostAnswer(out) ==
    LET w1 == SetContentType(NewWriter, "application/json")
        w2 == IF out.err THEN WriteHeader(w1, 500) ELSE w1
    IN IF WritesBody(out.resp, out.err) THEN Write(w2, out.resp) ELSE w2

ServeHTTP(method, path) ==
    /\ http.served < MaxHTTPRequests
    /\ IF method = "GET"
       THEN http' = [http EXCEPT !.served = @ + 1,
                                 !.last = [method |-> method, path |-> path,
                                           called |-> FALSE, out |-> NoOutcome,
                                           w |-> WriteHeader(NewWriter, GetStatus(path))]]
       ELSE IF method # "POST"
       THEN http' = [http EXCEPT !.served = @ + 1,
                                 !.last = [method |-> method, path |-> path,
                                           called |-> FALSE, out |-> NoOutcome,
                                           w |-> WriteHeader(NewWriter, 405)]]
       ELSE \E out \in CoreOutcomes :
            http' = [http EXCEPT !.served = @ + 1,
                                 !.requests = @ + 1,
                                 !.last = [method |-> method, path |-> path,
                                           called |-> TRUE, out |-> out,
                                           w |-> PostAnswer(out)]]
    /\ lastWrite' = None /\ lastCall' = None
    /\ UNCHANGED <<engine, closed, calls, txWait, chain, budget, history, wfails, written,
                   handler, req, trace, reports, served>>

InitHTTP == InitWith([subs |-> 0, pub |-> 0, fail |-> 0], None, "received", NoWritten)

NextHTTP == \E method \in HTTPMethods, path \in Paths : ServeHTTP(method, path)

SpecHTTP == InitHTTP /\ [][NextHTTP]_vars

(***************************************************************************)
(* SpecTx: one transaction-status subscription for a transaction the       *)
(* gateway does not know at first, with the sequence of its notifications. *)
(***************************************************************************)
InitTx == InitWith([subs |-> 1, pub |-> TxMaxPublish, fail |-> TxMaxWriteFail], None,
                   "notFound", AllWritten)

NextTx ==
    \/ SubscribeTransactionStatus("c1")
    \/ TxNotFoundTick("c1")
    \/ TxNotFoundTimeout("c1")
    \/ SubscribeTransactionStatusGo(1)
    \/ TxStatusFirst(1)
    \/ TxStatusPoll(1)
    \/ processReorgs(1)
    \/ WaitTasks(1)
    \/ Close("c1")
    \/ PendingUpdate(<<>>)
    \/ L1Head
    \/ \E b \in Blocks : Reorg(b)
    \/ TxAdvance
    \/ TxRevert

SpecTx == InitTx /\ [][NextTx]_vars

(***************************************************************************)
(* Properties.                                                             *)
(***************************************************************************)
\* the step just taken returned from handler op
Returned(op) == lastCall' # None /\ lastCall'.op = op
\* the step just taken returned from Unsubscribe without having waited
Refused == Returned("Unsubscribe") /\ calls' = calls
Cleaned(id) ==
    /\ id \notin subscriptions
    /\ \A t \in DOMAIN NoPc : ~Running(id, t)
    /\ \A n \in DOMAIN NoFeeds : ~feeds[id][n].on

\* C1: Unsubscribe(s) over a connection other than the one that registered s
\* returns 'invalid subscription id' and neither cancels s's context nor removes
\* s from the registry nor touches its goroutines and feeds
C1_UnsubscribeAuthorization ==
    [][(/\ Returned("Unsubscribe")
        /\ lastCall'.conn \in Conns
        /\ lastCall'.id \in subscriptions
        /\ subs[lastCall'.id].conn # lastCall'.conn)
       => /\ lastCall'.res = "invalid subscription id"
          /\ UNCHANGED <<engine, calls, closed>>]_vars
\* a foreign connection has been refused on a registered subscription that runs
C1_Witness ==
    /\ lastCall # None /\ lastCall.op = "Unsubscribe"
    /\ lastCall.conn \in Conns
    /\ lastCall.id \in subscriptions
    /\ subs[lastCall.id].conn # lastCall.conn
    /\ lastCall.res = "invalid subscription id"
    /\ ~Done(lastCall.id) /\ ~WgEmpty(lastCall.id)

\* C2: once Unsubscribe(id) has returned true, no notification carrying
\* subscription_id = id is written to the connection
C2_UnsubscribeDrains ==
    (lastWrite # None /\ lastWrite.ok) => lastWrite.id \notin acked

\* C3: Unsubscribe returns true only to the owner, for a registered id, with the
\* context cancelled, the subscription's goroutine finished and the entry removed;
\* naming an id that is not in the registry it returns 'invalid subscription id'
\* and changes nothing; an id already unsubscribed is not in the registry
C3_UnsubscribeResult ==
    [][/\ (Returned("Unsubscribe") /\ lastCall'.res = "true")
          => /\ lastCall'.conn = subs[lastCall'.id].conn
             /\ subs'[lastCall'.id].cancelled
             /\ pc'[lastCall'.id].main = "done"
             /\ lastCall'.id \notin subscriptions'
       /\ (Refused /\ lastCall'.conn \in Conns /\ lastCall'.id \notin subscriptions)
          => /\ lastCall'.res = "invalid subscription id"
             /\ UNCHANGED <<engine, calls, closed>>
       /\ (Refused /\ lastCall'.conn \in Conns /\ lastCall'.id \in subscriptions)
          => subs[lastCall'.id].conn # lastCall'.conn
       /\ acked' \cap subscriptions' = {}]_vars
\* C4: a handler called with a context that carries no connection returns
\* 'method not found' and changes nothing: no id, no registry entry, no feed handle
C4_ConnectionRequired ==
    [][(lastCall' # None /\ lastCall'.conn = NoConn)
       => /\ lastCall'.res = "method not found"
          /\ UNCHANGED <<engine, calls, closed, txWait, budget>>]_vars
\* an Unsubscribe without a connection has been refused for a registered id
C4_Witness ==
    /\ lastCall # None /\ lastCall.op = "Unsubscribe"
    /\ lastCall.conn = NoConn
    /\ lastCall.id \in subscriptions
    /\ lastCall.res = "method not found"

\* C5: once the request context of a subscription is cancelled, its goroutines
\* eventually stop, its feed handles are detached and its entry is deleted
C5_CancellationCleanup ==
    \A id \in Ids : (subs[id].kind # "none" /\ subs[id].conn \in closed) ~> Cleaned(id)
\* a subscription whose three tasks were started has been cleaned up after the close
C5_Witness ==
    /\ subs[1].kind = "heads" /\ "c1" \in closed
    /\ pc[1].hist = "done" /\ pc[1].live = "done" /\ pc[1].reorgs = "done"
    /\ Cleaned(1)

\* C6: a transaction-status subscription that has observed a terminal finality
\* eventually deletes its registry entry and detaches its feed handles
C6_SelfTermination ==
    \A id \in Ids : (id \in sawFinal) ~> Cleaned(id)

\* C7: after a write for a subscription has returned an error, no further write
\* is attempted for its id
C7_WriteFailureTerminates ==
    lastWrite # None => wfails[lastWrite.id] <= (IF lastWrite.ok THEN 0 ELSE 1)

\* the step just taken wrote an events notification
EventWritten ==
    /\ evHist # None /\ lastWrite # None /\ lastWrite.ok
    /\ lastWrite.method = "starknet_subscriptionEvents"

\* C8: an event first seen in the pending block and later seen in a confirmed
\* block has been notified exactly once
C8_PendingThenConfirmedOnce ==
    evHist # None =>
        \A k \in Blocks : (evHist.first[k] = "pending" /\ evHist.form[k] = "confirmed")
                          => evHist.count[k] = 1

\* C9: eventsPreviouslySent holds only events whose last arrival was from the
\* pending block: an event that has arrived with a block hash is not in it
C9_SentSetLifecycle ==
    evHist # None =>
        \A id \in Ids : \A k \in loc[id].sent : evHist.form[k] = "pending"

\* C10 as stated: the first events notification written after a reorg with
\* StartBlockNum = B has been handled carries a block number >= B, whatever
\* reorgs were delivered in between
C10_ReorgRewind ==
    (EventWritten /\ evHist.was.reorgStart > 0)
    => lastWrite.result.num >= evHist.was.reorgStart
\* C10 amended: the first events notification written after a reorg has been
\* handled carries a block number >= the smallest StartBlockNum among that reorg
\* and the reorgs published since it was taken from the feed
C10_ReorgRewindFloor ==
    (EventWritten /\ evHist.was.reorgStart > 0)
    => lastWrite.result.num >= evHist.was.floor
\* the event of block B itself has been notified again after the reorg at B
C10_Witness ==
    /\ EventWritten /\ evHist.was.reorgStart > 0
    /\ lastWrite.result.num = evHist.was.reorgStart
    /\ evHist.count[lastWrite.result.key] > 1

\* the positions in `written` of the header notifications of subscription id
HeadWrites(id) ==
    {i \in DOMAIN written.seq : written.seq[i].id = id
                                /\ written.seq[i].method = "starknet_subscriptionNewHeads"}
\* how many header notifications of subscription id carry block number n
HeadCount(id, n) == Cardinality({i \in HeadWrites(id) : written.seq[i].result = n})

\* C11: without reorg, no header is notified twice, and once the historical task
\* is done and the live task has emptied its feed handle, every header from the
\* start block to the chain head has been notified
C11_NewHeadsCompleteness ==
    written.on =>
        \A id \in Ids :
            /\ \A n \in Blocks : HeadCount(id, n) <= 1
            /\ (/\ subs[id].kind = "heads" /\ ~Done(id)
                /\ pc[id].hist = "done" /\ pc[id].live = "run"
                /\ feeds[id].newHeads.buf = <<>>)
               => \A n \in loc[id].start..height : HeadCount(id, n) = 1

\* C12: without reorg, the header notifications of a subscription are written in
\* non-decreasing order of block number
C12_NewHeadsOrdering ==
    written.on =>
        \A id \in Ids : \A i, j \in HeadWrites(id) :
            i < j => written.seq[i].result <= written.seq[j].result

\* the step just taken refused a subscribe call with error err and created nothing
Rejected(err) ==
    /\ lastCall' # None /\ lastCall'.res = err
    /\ UNCHANGED <<engine, budget>>
\* the step just taken generated an id and registered a subscription of this kind
Accepted(kind) ==
    /\ lastCall' = None
    /\ nextId' = nextId + 1
    /\ subscriptions' = subscriptions \cup {nextId}
    /\ subs'[nextId].kind = kind

\* C13: with a start block that exists, SubscribeNewHeads and SubscribeEvents
\* answer 'too many blocks back', creating nothing, exactly when the start block
\* is older than head - MaxBlocksBack; otherwise they register the subscription
C13_TooManyBlocksBack ==
    [][\A n \in 0..height :
         /\ SubscribeNewHeads("c1", BlockNumber(n))
            => IF n + MaxBlocksBack < height THEN Rejected("too many blocks back")
               ELSE Accepted("heads")
         /\ SubscribeEvents("c1", <<>>, BlockNumber(n))
            => IF n + MaxBlocksBack < height THEN Rejected("too many blocks back")
               ELSE Accepted("events")]_vars

\* C14: SubscribeEvents answers 'too many keys in filter', creating nothing,
\* exactly when the lengths of the inner lists of keys sum to more than
\* MaxEventFilterKeys; otherwise it registers the subscription
C14_EventKeyLimit ==
    [][\A keys \in KeyLists :
         SubscribeEvents("c1", keys, Latest)
         => IF SumLen(keys) > MaxEventFilterKeys THEN Rejected("too many keys in filter")
            ELSE Accepted("events")]_vars

\* C15: a SubscribeTransactionStatus call leaves the not-found loop either with an
\* error ('transaction hash not found' at the timeout, or the other error a poll
\* returned) and nothing created, or with a subscription registered for the status
\* a poll found; 'transaction hash not found' is answered only from the loop, and
\* an id is generated only for a transaction that was found
C15_TxNotFoundWindow ==
    [][/\ ("c1" \in txWait /\ "c1" \notin txWait')
          => \/ /\ Rejected("transaction hash not found") \/ Rejected("internal error")
                /\ lastCall'.op = "SubscribeTransactionStatus" /\ lastCall'.id = 0
             \/ /\ Accepted("txStatus")
                /\ txStatus # "notFound" /\ loc'[nextId].status = txStatus
       /\ (/\ lastCall' # None /\ lastCall'.op = "SubscribeTransactionStatus"
           /\ lastCall'.res = "transaction hash not found")
          => "c1" \in txWait /\ "c1" \notin txWait' /\ UNCHANGED <<engine, budget>>
       /\ nextId' # nextId => txStatus # "notFound"]_vars
\* the call timed out in the not-found loop: the error is returned, nothing exists
C15_Witness ==
    /\ lastCall # None /\ lastCall.op = "SubscribeTransactionStatus"
    /\ lastCall.res = "transaction hash not found"
    /\ nextId = 1 /\ subscriptions = {} /\ "c1" \notin txWait

\* the statuses notified to subscription id, in the order written, in history w
StatusSeqOf(w, id) ==
    LET IsStatusWrite(e) == e.id = id
                            /\ e.method = "starknet_subscriptionTransactionsStatus"
        s == SelectSeq(w.seq, IsStatusWrite)
    IN [i \in DOMAIN s |-> s[i].result]

\* C16: the first status notification of a subscription is written before its
\* tasks start and carries the status the handler found; every later one has a
\* finality strictly above the one written before it; a pending-block tick whose
\* refetched finality is not above the previous one writes nothing
C16_TxStatusMonotonic ==
    [][\A id \in Ids :
         LET old == StatusSeqOf(written, id)
             new == StatusSeqOf(written', id)
         IN /\ new # old
               => /\ new = Append(old, new[Len(new)])
                  /\ IF old = <<>>
                     THEN pc[id].main = "first" /\ new[1] = loc[id].status
                     ELSE Finality[new[Len(new)]] > Finality[old[Len(old)]]
            /\ (/\ subs[id].kind = "txStatus" /\ pc[id].poll = "run"
                /\ feeds[id].pendingBlock.buf # <<>>
                /\ feeds'[id].pendingBlock = FeedRecv(feeds[id].pendingBlock)
                /\ Finality[loc'[id].status] <= Finality[loc[id].status])
               => new = old]_vars
\* three statuses were notified, each above the one before
C16_Witness == StatusSeqOf(written, 1) = <<"received", "acceptedL2", "acceptedL1">>

\* C17: a notification of rejected or accepted_on_l1 is the last status
\* notification the subscription writes
C17_FinalityIsFinal ==
    written.on =>
        \A id \in Ids : \A i \in DOMAIN StatusSeqOf(written, id) :
            StatusSeqOf(written, id)[i] \in {"rejected", "acceptedL1"}
            => i = Len(StatusSeqOf(written, id))
\* a final status was notified, and the subscription wrote a reorg notification
\* after it
C17_Witness ==
    /\ Len(written.seq) >= 3
    /\ written.seq[Len(written.seq) - 1].method = "starknet_subscriptionTransactionsStatus"
    /\ written.seq[Len(written.seq) - 1].result = "rejected"
    /\ written.seq[Len(written.seq)].method = "starknet_subscriptionReorg"

\* the registration number of the outermost middleware that answers by itself, or 0
\* for the terminal dispatcher: where a request turns around
TurnsAt ==
    LET short == {handler[i].n : i \in {j \in DOMAIN handler : handler[j].kind = "short"}}
    IN IF short = {} THEN 0 ELSE CHOOSE n \in short : \A k \in short : k <= n
\* Mn, ..., down to where the request turns around, and back up to Mn
ExpectedTrace ==
    LET n == Len(handler)
        down == n - TurnsAt + 1
    IN [k \in 1..(2 * down) |-> IF k <= down THEN Entered(n - k + 1)
                                ELSE Left(TurnsAt + (k - down) - 1)]
IsPrefix(a, b) == Len(a) <= Len(b) /\ \A k \in DOMAIN a : a[k] = b[k]

\* C18: a request enters the middlewares from the last registered to the first,
\* then the terminal dispatcher, and leaves them in the reverse order; below a
\* middleware that answers without calling next, nothing runs
C18_MiddlewareLIFO ==
    req.dir \in {"down", "up"} =>
        /\ IsPrefix(trace, ExpectedTrace)
        /\ (req.dir = "up" /\ req.at = Len(handler) + 1) => trace = ExpectedTrace
\* a request went through M2(M1(terminal)) and is back at Server.Handle
C18_Witness ==
    /\ Len(handler) = 2 /\ TurnsAt = 0
    /\ req.dir = "up" /\ req.at = 3
    /\ trace = <<Entered(2), Entered(1), Entered(0), Left(0), Left(1), Left(2)>>

\* the calls of one kind that middleware number n made on its reporter
ReportsBy(n, call) == SelectSeq(reports, LAMBDA e : e.mw = n /\ e.call = call)
\* the reporter's request count: its ReportRequest calls
ReportCount(r) ==
    Len(SelectSeq(reports, LAMBDA e : e.rep = r /\ e.call = "ReportRequest"))
\* the metrics middlewares the downstream has returned to
ReturnedTo == {i \in DOMAIN handler : handler[i].kind = "metrics" /\ req.dir # "done"
                                    /\ \E k \in DOMAIN trace : trace[k] = Left(handler[i].n)}
OneReport(i, call) ==
    /\ Len(ReportsBy(handler[i].n, call)) = 1
    /\ ReportsBy(handler[i].n, call)[1].method = req.method
    /\ ReportsBy(handler[i].n, call)[1].rep = handler[i].rep

\* C19: a metrics middleware whose downstream has returned has called
\* ReportRequest once and ReportRequestDuration once, with the request's method,
\* and no middleware has reported before that; a request back at Server.Handle
\* has raised each reporter's count by the number of metrics middlewares it
\* passed that use this reporter
C19_MetricsCounting ==
    req.dir \in {"down", "up"} =>
        /\ \A i \in DOMAIN handler :
              IF i \in ReturnedTo
              THEN OneReport(i, "ReportRequest") /\ OneReport(i, "ReportRequestDuration")
              ELSE /\ ReportsBy(handler[i].n, "ReportRequest") = <<>>
                   /\ ReportsBy(handler[i].n, "ReportRequestDuration") = <<>>
        /\ (req.dir = "up" /\ req.at = Len(handler) + 1)
           => \A r \in Reporters :
                 ReportCount(r) = Cardinality({i \in DOMAIN handler :
                                                 /\ handler[i].kind = "metrics"
                                                 /\ handler[i].rep = r
                                                 /\ handler[i].n > TurnsAt})
\* two metrics middlewares on one reporter: one request, count 2
C19_Witness ==
    /\ Len(handler) = 2 /\ TurnsAt = 0
    /\ handler[1].rep = "r1" /\ handler[2].rep = "r1"
    /\ req.dir = "up" /\ req.at = 3
    /\ ReportCount("r1") = 2

\* C20: a metrics middleware whose downstream has returned has called
\* ReportRequestError once with the response's error code if the response is not
\* nil and carries an error, and not at all otherwise
C20_MetricsErrorReporting ==
    req.dir \in {"down", "up"} =>
        \A i \in DOMAIN handler :
            IF i \in ReturnedTo /\ ~req.resp.nil /\ req.resp.hasError
            THEN /\ OneReport(i, "ReportRequestError")
                 /\ ReportsBy(handler[i].n, "ReportRequestError")[1].code = req.resp.code
            ELSE ReportsBy(handler[i].n, "ReportRequestError") = <<>>
\* an error response came back through a metrics middleware and was reported
C20_Witness ==
    /\ req.dir = "up" /\ ~req.resp.nil /\ req.resp.hasError /\ req.resp.code = -32601
    /\ ReturnedTo # {}
    /\ \E k \in DOMAIN reports : /\ reports[k].call = "ReportRequestError"
                                 /\ reports[k].code = -32601

\* C21: with metrics middlewares only, the terminal dispatcher is called once with
\* the request Server.Handle was given, and Server.Handle gets back the response
\* and the error the terminal dispatcher returned -- what a server with no
\* middleware returns
C21_MiddlewareTransparency ==
    (req.dir = "up" /\ req.at = Len(handler) + 1 /\ TurnsAt = 0)
    => req.seen = [method |-> req.asked, resp |-> req.resp, err |-> req.err, times |-> 1]
\* an error came back unchanged through three metrics middlewares
C21_Witness ==
    /\ Len(handler) = 3 /\ TurnsAt = 0
    /\ req.dir = "up" /\ req.at = 4
    /\ req.err /\ req.seen.err /\ req.seen.times = 1

\* the exchange just served did not reach the Server Core: no call, no count, no body
NotARequest ==
    /\ ~http'.last.called
    /\ http'.requests = http.requests
    /\ http'.last.w.body = NoBytes
\* the exchange just served was handed to the Server Core and counted
ARequest == http'.last.called /\ http'.requests = http.requests + 1

\* C22 as stated: GET / is answered 200, GET elsewhere 404, another method than
\* GET and POST 405, none of them reaching the Server Core, counted, or given a
\* body; POST is taken as a JSON-RPC request on path '/' only
C22_OnlyPostRoot ==
    [][\A method \in HTTPMethods, path \in Paths :
          ServeHTTP(method, path)
          => IF method = "POST" /\ path = "/" THEN ARequest
             ELSE /\ NotARequest
                  /\ method = "GET" /\ path = "/" => Status(http'.last.w) = 200
                  /\ method = "GET" /\ path # "/" => Status(http'.last.w) = 404
                  /\ method \notin {"GET", "POST"} => Status(http'.last.w) = 405]_vars
\* C22 amended: the same, with POST taken as a JSON-RPC request on every path
C22_HTTPMethodDispatch ==
    [][\A method \in HTTPMethods, path \in Paths :
          ServeHTTP(method, path)
          => IF method = "POST" THEN ARequest
             ELSE /\ NotARequest
                  /\ method = "GET" /\ path = "/" => Status(http'.last.w) = 200
                  /\ method = "GET" /\ path # "/" => Status(http'.last.w) = 404
                  /\ method \notin {"GET", "POST"} => Status(http'.last.w) = 405]_vars
\* after a counted POST, a GET on another path was answered 404 and not counted
C22_Witness ==
    /\ http.last.method = "GET" /\ http.last.path = "/v0_8"
    /\ Status(http.last.w) = 404 /\ ~http.last.called
    /\ http.requests = 1 /\ http.served = 2

\* C23: a POST is answered with Content-Type application/json, with status 500 if
\* the Server Core returned an error and 200 otherwise, and with the core's bytes
\* as the body if it returned any, no body if it returned none
C23_HTTPPostOutcome ==
    http.last.method = "POST" =>
        /\ http.last.w.contentType = "application/json"
        /\ Status(http.last.w) = IF http.last.out.err THEN 500 ELSE 200
        /\ http.last.w.body = http.last.out.resp
\* the core returned an error together with bytes: status 500 and the bytes as body
C23_Witness ==
    /\ http.last.method = "POST" /\ http.last.out.err
    /\ http.last.out.resp = "{error}"
    /\ Status(http.last.w) = 500 /\ http.last.w.body = "{error}"

\* the transaction with hash h passes the sender filter
PassesSenders(h, senderAddr) ==
    \/ senderAddr = <<>>
    \/ /\ Tx(h).type \in {"invoke", "declare"}
       /\ Tx(h).sender \in {senderAddr[i] : i \in DOMAIN senderAddr}
\* the hashes of a pending block's transactions that pass, in the block's order
PassingHashes(block, senderAddr) ==
    SelectSeq(block, LAMBDA h : PassesSenders(h, senderAddr))
Hashes(payloads) == [i \in DOMAIN payloads |-> payloads[i].hash]

\* C24: SubscribePendingTxs answers 'too many addresses in filter', creating
\* nothing, exactly for a sender list longer than MaxEventFilterKeys; and of a
\* pending block it receives, the subscription takes every transaction when its
\* list is empty, otherwise exactly the invoke and declare transactions whose
\* sender is in the list
C24_SenderFilter ==
    [][/\ \A g \in {"nil", "true", "false"}, senderAddr \in SenderLists :
             SubscribePendingTxs("c1", g, senderAddr)
             => IF Len(senderAddr) > MaxEventFilterKeys
                THEN Rejected("too many addresses in filter")
                ELSE Accepted("pendingTxs") /\ loc'[nextId].senders = senderAddr
       /\ \A id \in Ids :
             (processPendingTxs(id) /\ feeds'[id].pendingBlock.on
              /\ feeds'[id].pendingBlock # feeds[id].pendingBlock)
             => Hashes(loc'[id].todo)
                = PassingHashes(Head(feeds[id].pendingBlock.buf), loc[id].senders)]_vars
\* a subscription with sender list [a1] took h1 alone from the block h1, h2, h3
C24_Witness ==
    /\ subs[1].kind = "pendingTxs" /\ loc[1].senders = <<"a1">>
    /\ loc[1].recv = <<<<"h1", "h2", "h3">>>>
    /\ Hashes(loc[1].todo) = <<"h1">>

\* what is to be notified for one pending block: per passing transaction, in the
\* block's order, the transaction itself or its hash alone
ExpectedPayloads(block, details, senderAddr) ==
    LET hs == PassingHashes(block, senderAddr)
    IN [i \in DOMAIN hs |-> [hash |-> hs[i], body |-> IF details THEN Tx(hs[i]) ELSE None]]
RECURSIVE ExpectedAll(_, _, _)
ExpectedAll(blocks, details, senderAddr) ==
    IF blocks = <<>> THEN <<>>
    ELSE ExpectedPayloads(Head(blocks), details, senderAddr)
         \o ExpectedAll(Tail(blocks), details, senderAddr)
\* the payloads of the pending-transactions notifications written to id, in order
PendingWritten(id) ==
    LET s == SelectSeq(written.seq,
                       LAMBDA e : /\ e.id = id
                                  /\ e.method = "starknet_subscriptionPendingTransactions")
    IN [i \in DOMAIN s |-> s[i].result]

\* C30: as long as no write has failed, the pending-transactions notifications
\* written to a subscription, followed by those it still has to write for the
\* block at hand, are one per passing transaction of the pending blocks it has
\* received, in order, with the transaction body when getDetails is true and the
\* hash alone when it is false or absent
C30_PendingTxsEmission ==
    [][/\ \A id \in Ids :
             (subs'[id].kind = "pendingTxs" /\ wfails'[id] = 0)
             => PendingWritten(id)' \o loc'[id].todo
                = ExpectedAll(loc'[id].recv, loc'[id].details, loc'[id].senders)
       /\ \A g \in {"nil", "true", "false"} :
             SubscribePendingTxs("c1", g, <<>>) => loc'[nextId].details = (g = "true")]_vars
\* two pending blocks were received and every notification for them is written,
\* with the transaction bodies
C30_Witness ==
    /\ subs[1].kind = "pendingTxs" /\ loc[1].details /\ loc[1].senders = <<>>
    /\ loc[1].recv = <<<<"h3", "h2">>, <<"h1", "h2", "h3">>>>
    /\ loc[1].todo = <<>>
    /\ Hashes(PendingWritten(1)) = <<"h3", "h2", "h1", "h2", "h3">>
    /\ PendingWritten(1)[1].body = Tx("h3")

\* the step just taken stored a new subscription in the registry
Stored == budget'.subs = budget.subs - 1

\* C25: a subscribe call stores its subscription under an id that no subscription
\* has or had, leaving every other entry as it was, and a successful subscribe
\* call returns the id of the subscription it stored, which no earlier call
\* returned
C25_IdUniqueness ==
    [][/\ Stored
          => \E id \in Ids :
                /\ subs[id] = NoSub /\ id \notin subscriptions
                /\ subs'[id] # NoSub /\ subscriptions' = subscriptions \cup {id}
                /\ \A other \in Ids \ {id} : subs'[other] = subs[other]
       /\ (lastCall' # None /\ lastCall'.res = "ok")
          => /\ pc[lastCall'.id].main = "init" /\ pc'[lastCall'.id].main # "init"
             /\ subs[lastCall'.id] # NoSub
       /\ \A id \in Ids : (pc[id].main # "init" /\ pc'[id].main = "init") => Stored]_vars
\* a second subscription was stored under a new id after the first one was
\* unsubscribed and deleted
C25_Witness ==
    /\ subs[1] # NoSub /\ 1 \notin subscriptions /\ 1 \in acked
    /\ 2 \in subscriptions /\ ~subs[2].cancelled

\* the step just taken wrote reorg r to subscription id
WroteReorg(id, r) ==
    /\ lastWrite' # None /\ lastWrite'.id = id /\ lastWrite'.ok
    /\ lastWrite'.method = "starknet_subscriptionReorg" /\ lastWrite'.result = r

\* C26: a reorg published to an attached subscription that is not cancelled and
\* whose writes succeed stays in the subscription's handle until the step that
\* writes it as a reorg notification; no step removes it unwritten
C26_ReorgForwarding ==
    [][\A id \in Ids :
          (/\ feeds[id].reorgs.on /\ ~Done(id) /\ wfails'[id] = wfails[id]
           /\ feeds[id].reorgs.buf # <<>>)
          => \/ WroteReorg(id, Head(feeds[id].reorgs.buf))
             \/ \E k \in DOMAIN feeds'[id].reorgs.buf :
                   feeds'[id].reorgs.buf[k] = Head(feeds[id].reorgs.buf)]_vars

\* the events notifications written to subscription id for block n with a block hash
ConfirmedWrites(id, n) ==
    SelectSeq(written.seq, LAMBDA m : /\ m.id = id
                                      /\ m.method = "starknet_subscriptionEvents"
                                      /\ m.result.num = n /\ ~m.result.pending)

\* C27: on a chain without reorgs and with successful writes, no confirmed block
\* is replayed twice: the confirmed event of every block is written at most once
C27_ReplayCoverage ==
    \A id \in Ids : \A n \in Blocks : Len(ConfirmedWrites(id, n)) <= 1

\* the step just taken received a value from handle f of subscription id
Took(id, f) ==
    /\ feeds[id][f].on /\ feeds'[id][f].on
    /\ feeds[id][f].buf # <<>> /\ feeds'[id][f].buf = Tail(feeds[id][f].buf)
\* the step just taken handed a notification of this method to subscription id
Sent(id, method) ==
    lastWrite' # None /\ lastWrite'.id = id /\ lastWrite'.method = method

\* C28: an events subscription takes a value from its reorg, new-heads or pending
\* handle, and writes a reorg notification, only in its loop with no replay under
\* way (the initial replay included); every events notification it writes is the
\* next event, in the filter's order, of the one replay under way
C28_SingleTaskOrder ==
    [][\A id \in Ids : subs[id].kind = "events" =>
          /\ (\E f \in {"newHeads", "reorgs", "pendingBlock"} : Took(id, f))
                => pc[id].main = "loop" /\ loc[id].todo = <<>>
          /\ Sent(id, "starknet_subscriptionReorg")
                => pc[id].main = "loop" /\ loc[id].todo = <<>>
          /\ Sent(id, "starknet_subscriptionEvents")
                => /\ pc[id].main = "send" /\ loc[id].todo # <<>>
                   /\ lastWrite'.result = Head(loc[id].todo)
                   /\ loc'[id].todo \in {Tail(loc[id].todo), <<>>}]_vars
\* the initial replay has written its first event and has another to write while a
\* reorg and a new head wait in the subscription's handles
C28_Witness ==
    /\ subs[1].kind = "events" /\ pc[1].main = "send" /\ ~loc[1].track
    /\ lastWrite # None /\ lastWrite.method = "starknet_subscriptionEvents" /\ lastWrite.ok
    /\ loc[1].todo # <<>>
    /\ feeds[1].reorgs.buf # <<>> /\ feeds[1].newHeads.buf # <<>>

\* the header notifications written to subscription id for blocks up to the
\* latest header resolved at subscribe time, in the order written
HistoricalWrites(id) ==
    LET ws == SelectSeq(written.seq,
                        LAMBDA m : /\ m.id = id
                                   /\ m.method = "starknet_subscriptionNewHeads"
                                   /\ m.result <= loc[id].latest)
    IN [k \in DOMAIN ws |-> ws[k].result]
\* the block numbers from, from + 1, ..., to
Ascending(from, to) == [k \in 1..(to + 1 - from) |-> from + k - 1]
\* the step just taken is an iteration of sendHistoricalHeaders for id
HistoricalStep(id) ==
    pc[id].hist = "run" /\ (pc'[id].hist # "run" \/ loc'[id].cur # loc[id].cur)

\* C29: without cancellation (no write or reader error occurs on this chain),
\* sendHistoricalHeaders has written S..cur-1 while it runs and exactly S..L, in
\* ascending order and each once, when it has returned: L - S + 1 headers, one
\* for a 'latest' block id; started with the context cancelled it writes nothing
C29_HistoricalHeaders ==
    /\ [](\A id \in Ids : (subs[id].kind = "heads" /\ ~Done(id)) =>
             /\ pc[id].hist = "run"
                  => HistoricalWrites(id) = Ascending(loc[id].start, loc[id].cur - 1)
             /\ pc[id].hist = "done"
                  => /\ loc[id].cur = loc[id].latest
                     /\ HistoricalWrites(id) = Ascending(loc[id].start, loc[id].latest)
                     /\ Len(HistoricalWrites(id)) = loc[id].latest - loc[id].start + 1)
    /\ [][\A id \in Ids : (subs[id].kind = "heads" /\ Done(id) /\ HistoricalStep(id))
             => lastWrite' = None /\ written' = written]_vars
\* two historical headers, 0 and 1, have been written and the task has returned
C29_Witness ==
    /\ subs[1].kind = "heads" /\ ~Done(1) /\ pc[1].hist = "done"
    /\ loc[1].start = 0 /\ loc[1].latest = 1
    /\ HistoricalWrites(1) = <<0, 1>>

\* the step just taken returned an id from a subscribe handler
Subscribed ==
    /\ lastCall' # None /\ lastCall'.res = "ok"
    /\ lastCall'.op \in {"SubscribeNewHeads", "SubscribeEvents", "SubscribePendingTxs",
                         "SubscribeTransactionStatus"}
\* the step just taken moved a goroutine of subscription id
Moved(id) == pc'[id] # pc[id] \/ loc'[id] # loc[id] \/ feeds'[id] # feeds[id]

\* C31: the id a subscribe call returns names the subscription holding the call's
\* connection, a subscription keeps its connection, and every notification is
\* written by a step of the goroutines of the subscription whose id it carries,
\* to that subscription's connection; no other subscription moves in that step
C31_NotificationRouting ==
    [][/\ Subscribed => /\ subs'[lastCall'.id] # NoSub
                        /\ subs'[lastCall'.id].conn = lastCall'.conn
       /\ \A id \in Ids : subs[id] # NoSub => subs'[id].conn = subs[id].conn
       /\ lastWrite' # None
             => /\ lastWrite'.id \in Ids /\ subs[lastWrite'.id] # NoSub
                /\ lastWrite'.conn = subs[lastWrite'.id].conn
                /\ Moved(lastWrite'.id)
                /\ \A j \in Ids \ {lastWrite'.id} : ~Moved(j)]_vars
\* subscription 2, on connection c2, has just written while subscription 1, on
\* connection c1, is running
C31_Witness ==
    /\ lastWrite # None /\ lastWrite.id = 2 /\ lastWrite.conn = "c2" /\ lastWrite.ok
    /\ subs[1] # NoSub /\ subs[1].conn = "c1" /\ ~WgEmpty(1)

\* the step just taken is a step of an Unsubscribe call that gets past its checks:
\* the cancel, after which caller r waits, or the delete and the answer true
UnsubscribeStep(r, id) ==
    \/ calls[r] = None /\ calls'[r] # None /\ calls'[r].id = id
    \/ calls[r] # None /\ calls'[r] = None /\ calls[r].id = id

\* C32: the steps of a successful Unsubscribe(id) cancel only subscription id and
\* delete only its entry: every other subscription keeps its record, its registry
\* entry, its feed handles and the position of its goroutines, stays uncancelled
\* if it was, and no connection's request context is cancelled
C32_UnsubscribeFrame ==
    [][\A r \in Callers, id \in Ids : UnsubscribeStep(r, id) =>
          /\ closed' = closed
          /\ subscriptions' \in {subscriptions, subscriptions \ {id}}
          /\ subs'[id].conn = subs[id].conn /\ subs'[id].kind = subs[id].kind
          /\ \A j \in Ids \ {id} :
                /\ subs'[j] = subs[j] /\ feeds'[j] = feeds[j]
                /\ pc'[j] = pc[j] /\ loc'[j] = loc[j]
                /\ Done(j)' = Done(j)]_vars
\* Unsubscribe(1) has returned true and subscription 2, on the same connection,
\* is registered, not cancelled, attached to its feeds and has just delivered a
\* notification
C32_Witness ==
    /\ 1 \in acked /\ 1 \notin subscriptions
    /\ subs[2] # NoSub /\ subs[2].conn = subs[1].conn
    /\ 2 \in subscriptions /\ ~Done(2) /\ feeds[2].newHeads.on
    /\ lastWrite # None /\ lastWrite.id = 2 /\ lastWrite.ok

\* the step just taken returned res from an Unsubscribe(id) call
UnsubscribeReturned(id, res) ==
    /\ lastCall' # None /\ lastCall'.op = "Unsubscribe"
    /\ lastCall'.id = id /\ lastCall'.res = res

\* C33, as stated: for every id at most one Unsubscribe call returns true
C33_UnsubscribeAtMostOnce ==
    [][\A id \in Ids : UnsubscribeReturned(id, "true") => id \notin acked]_vars

\* C33, amended: an id whose Unsubscribe has returned true is out of the registry
\* for good; a call that returns true was waiting, having looked the id up while
\* its entry was in the registry; a call from the owning connection that looks the
\* id up once the entry is deleted returns 'invalid subscription id' at once
C33_UnsubscribeAfterDelete ==
    /\ [](\A id \in acked : id \notin subscriptions)
    /\ [][\A id \in Ids :
             /\ \A r \in Callers :
                   (calls[r] = None /\ calls'[r] # None /\ calls'[r].id = id)
                      => id \in subscriptions
             /\ UnsubscribeReturned(id, "true")
                   => \E r \in Callers : /\ calls[r] # None /\ calls[r].id = id
                                         /\ calls'[r] = None
             /\ (/\ lastCall' # None /\ lastCall'.op = "Unsubscribe" /\ lastCall'.id = id
                 /\ lastCall'.conn # NoConn /\ calls' = calls)
                   => /\ lastCall'.res = "invalid subscription id"
                      /\ id \notin subscriptions \/ subs[id].conn # lastCall'.conn]_vars
\* a call for an id whose Unsubscribe has already returned true has just been
\* refused
C33_Witness ==
    /\ lastCall # None /\ lastCall.op = "Unsubscribe" /\ lastCall.id \in acked
    /\ lastCall.res = "invalid subscription id"
====
